---- MODULE Spec2Model ----
(***************************************************************************)
(* A model of the dataset and flow aggregation engine of backend/main.py:  *)
(* the quantile classifier, the record builder behind /api/values, the     *)
(* bounded boundary and flow caches, and the flow aggregator behind        *)
(* /api/flow, and the loaders run by concurrent request threads.           *)
(*                                                                         *)
(* Conventions.                                                            *)
(*   - An optional value (Python None, NaN, pd.NA) is the empty tuple      *)
(*     None; a present value v is the one-element tuple Some(v).           *)
(*   - Floats are modelled by integers (amounts, values, coordinates are   *)
(*     only compared, added and copied by the code that is modelled).      *)
(*   - Every handler is one action; each group of claims has its own       *)
(*     specification, which leaves the variables of the other groups       *)
(*     at their idle values.                                               *)
(***************************************************************************)
EXTENDS Integers, Sequences, FiniteSets, TLC

VARIABLES
    \* ---- the quantile classifier called on its own (SpecQuantile)
    qpc,            \* "start" | "computed" | "supplied"
    qvalues,        \* the list handed to quantile_thresholds
    qthresholds,    \* the threshold vector in use, <<>> before there is one
    qval,           \* the value last handed to get_quintile
    qquintile,      \* <<q>> for the class get_quintile returned, <<>> before
    \* ---- the two conversions called on their own (SpecNumeric)
    wquintile,      \* the quintile last handed to width_from_quintile
    wwidth,         \* None | Some(the width it returned, in tenths)
    nseries,        \* the column handed to numeric_series
    nnumeric,       \* None | Some(the series it returned)
    \* ---- the process: configuration read at import, files on disk
    GEO_CACHE_LIMIT,
    FLOW_CACHE_LIMIT,
    geoDisk,        \* level -> None | Some(feature collection)
    flowDisk,       \* level -> None | Some(raw flow rows)
    dataDisk,       \* "dataset:level" -> None | Some(table)
    \* ---- the module-level caches (main.py 131-137)
    DATA_CACHE,
    GEO_CACHE,
    GEO_CACHE_ORDER,
    FLOW_CACHE,
    FLOW_CACHE_ORDER,
    BOUNDARY_ID_CACHE,
    STATE_CENTROID_CACHE,
    \* ---- the request in progress
    response,       \* what the last handler returned, status "none" when idle
    \* ---- history (not read by the program)
    calls,          \* the loader calls the last handler made
    geoRecency,     \* the boundary keys ever accessed, oldest access first
    flowRecency,    \* the flow keys ever accessed, oldest access first
    \* ---- the loaders run by concurrent request threads (SpecRace)
    threads         \* thread -> the loader call it is in and its position

convvars == <<wquintile, wwidth, nseries, nnumeric>>
qvars == <<qpc, qvalues, qthresholds, qval, qquintile, convvars>>
cfgvars == <<GEO_CACHE_LIMIT, FLOW_CACHE_LIMIT, geoDisk, flowDisk, dataDisk>>
cachevars == <<DATA_CACHE, GEO_CACHE, GEO_CACHE_ORDER, FLOW_CACHE, FLOW_CACHE_ORDER,
               BOUNDARY_ID_CACHE, STATE_CENTROID_CACHE>>
histvars == <<calls, geoRecency, flowRecency>>
enginevars == <<cfgvars, cachevars, response, histvars, threads>>

vars == <<qvars, enginevars>>

(***************************************************************************)
(* Optional values and small helpers                                       *)
(***************************************************************************)
None == <<>>
Some(v) == <<v>>
IsMissing(x) == x = None
Get(x) == x[1]

Range(s) == {s[i] : i \in 1..Len(s)}
Last(s) == s[Len(s)]

RECURSIVE SumSeq(_)
SumSeq(s) == IF s = <<>> THEN 0 ELSE Head(s) + SumSeq(Tail(s))

\* The sequences over S of length at most n.
SeqsUpTo(S, n) == UNION {[1..k -> S] : k \in 0..n}

\* Python's sorted() on numbers: ascending, stable (insertion sort).
RECURSIVE InsertAsc(_, _)
InsertAsc(x, s) ==
    IF s = <<>> THEN <<x>>
    ELSE IF x < Head(s) THEN <<x>> \o s
    ELSE <<Head(s)>> \o InsertAsc(x, Tail(s))

RECURSIVE sorted(_)
sorted(s) == IF s = <<>> THEN <<>> ELSE InsertAsc(Last(s), sorted(SubSeq(s, 1, Len(s) - 1)))

(***************************************************************************)
(* Quantile classifier: quantile_thresholds, get_quintile                  *)
(***************************************************************************)
\* [v for v in values if v is not None and not math.isnan(v)]
clean_values(values) ==
    LET present == SelectSeq(values, LAMBDA v : ~IsMissing(v))
    IN  [i \in 1..Len(present) |-> Get(present[i])]

\* pct(p) for p = fifths/5: idx = int(p * (n - 1)).  The double product
\* p * (n - 1) truncates to floor(fifths * (n - 1) / 5) for p in 0.2, 0.4,
\* 0.6, 0.8 (0.6 is the only one stored below its value, by less than half
\* an ulp of the product).
pct_off_by_one(sorted_vals, fifths) ==
    sorted_vals[((fifths * Len(sorted_vals)) \div 5) + 1]

pct(sorted_vals, fifths) ==
    sorted_vals[((fifths * (Len(sorted_vals) - 1)) \div 5) + 1]

quantile_thresholds(values) ==
    LET clean == clean_values(values)
    IN  IF clean = <<>> THEN <<0, 0, 0, 0>>
        ELSE LET sorted_vals == sorted(clean)
             IN  <<pct(sorted_vals, 1), pct(sorted_vals, 2),
                   pct(sorted_vals, 3), pct(sorted_vals, 4)>>

get_quintile_strict(val, thresholds) ==
    IF IsMissing(val) THEN 0
    ELSE IF Get(val) < thresholds[1] THEN 1
    ELSE IF Get(val) < thresholds[2] THEN 2
    ELSE IF Get(val) < thresholds[3] THEN 3
    ELSE IF Get(val) < thresholds[4] THEN 4
    ELSE 5

get_quintile(val, thresholds) ==
    IF IsMissing(val) THEN 0
    ELSE IF Get(val) <= thresholds[1] THEN 1
    ELSE IF Get(val) <= thresholds[2] THEN 2
    ELSE IF Get(val) <= thresholds[3] THEN 3
    ELSE IF Get(val) <= thresholds[4] THEN 4
    ELSE 5

(***************************************************************************)
(* Dictionaries (Python dict) as functions with a growing domain           *)
(***************************************************************************)
EmptyDict == <<>>
DictSet(d, k, v) == [x \in DOMAIN d \cup {k} |-> IF x = k THEN v ELSE d[x]]
DictPop(d, k) == [x \in DOMAIN d \ {k} |-> d[x]]

\* list.remove(x): drop the first occurrence of x.
RECURSIVE RemoveFirst(_, _)
RemoveFirst(s, x) ==
    IF s = <<>> THEN <<>>
    ELSE IF Head(s) = x THEN Tail(s)
    ELSE <<Head(s)>> \o RemoveFirst(Tail(s), x)

Count(s, x) == Cardinality({i \in 1..Len(s) : s[i] = x})

(***************************************************************************)
(* Levels, lookup tables and the text conversions on the modelled strings  *)
(***************************************************************************)
LEVELS == {"state", "county", "congress"}
FLOW_LEVELS == {"state", "county", "congress"}

\* The entries of STATE_META the modelled files mention.
STATE_NAME_TO_FIPS ==
    [name \in {"maryland", "virginia", "alaska", "texas"} |->
        CASE name = "maryland" -> "24"
          [] name = "virginia" -> "51"
          [] name = "alaska" -> "02"
          [] name = "texas" -> "48"]

STATE_NAME_TO_ABBR ==
    [name \in {"maryland", "virginia", "alaska", "texas"} |->
        CASE name = "maryland" -> "MD"
          [] name = "virginia" -> "VA"
          [] name = "alaska" -> "AK"
          [] name = "texas" -> "TX"]

\* str.strip() on the strings of the modelled files.
strip(text) ==
    CASE text = " Maryland" -> "Maryland"
      [] text = "Howard " -> "Howard"
      [] text = " md-02" -> "md-02"
      [] text = "howard " -> "howard"
      [] text = " 2021" -> "2021"
      [] OTHER -> text

\* str.lower()
lower(text) ==
    CASE text = "Maryland" -> "maryland"
      [] text = "Virginia" -> "virginia"
      [] text = "Alaska" -> "alaska"
      [] text = "Narnia" -> "narnia"
      [] text = "Texas" -> "texas"
      [] OTHER -> text

\* str.title()
title(text) ==
    CASE text = "maryland" -> "Maryland"
      [] text = "virginia" -> "Virginia"
      [] text = "alaska" -> "Alaska"
      [] text = "texas" -> "Texas"
      [] text = "narnia" -> "Narnia"
      [] text = "nan" -> "Nan"
      [] text = "howard" -> "Howard"
      [] text = "fairfax" -> "Fairfax"
      [] OTHER -> text

\* str.upper()
upper(text) ==
    CASE text = "md-01" -> "MD-01"
      [] text = "md-02" -> "MD-02"
      [] text = "va-08" -> "VA-08"
      [] text = "nan" -> "NAN"
      [] OTHER -> text

\* str(int(raw)).zfill(width): None where int() raises TypeError/ValueError.
fips_text(raw, width) ==
    CASE raw = "24" -> Some("24")
      [] raw = "51" -> Some("51")
      [] raw = "2" -> Some(IF width >= 2 THEN "02" ELSE "2")
      [] raw = "24027" -> Some("24027")
      [] raw = "51059" -> Some("51059")
      [] raw = "1001" -> Some(IF width >= 5 THEN "01001" ELSE "1001")
      [] OTHER -> None

(***************************************************************************)
(* Boundary files: a feature is its raw properties.id and the midpoint of  *)
(* its geometry's bounding box (None for a feature without coordinates)    *)
(***************************************************************************)
Feature(id, mid) == [id |-> id, mid |-> mid]

GeoFile(level) ==
    CASE level = "state" ->
           << Feature(Some("24"), Some(<<39, -77>>)),
              Feature(Some("51"), Some(<<38, -79>>)),
              Feature(Some("2"), Some(<<61, 0>>)),
              Feature(Some("xx"), Some(<<0, 0>>)),
              Feature(None, None) >>
      [] level = "county" ->
           << Feature(Some("24027"), Some(<<39, -77>>)),
              Feature(Some("1001"), Some(<<32, -86>>)),
              Feature(Some("xx"), None) >>
      [] level = "congress" ->
           << Feature(Some("MD-01"), Some(<<39, -76>>)),
              Feature(Some(" md-02"), Some(<<39, -77>>)) >>

SPECIAL_STATE_CENTROIDS ==
    [fips \in {"02", "15"} |-> IF fips = "02" THEN <<64, -152>> ELSE <<21, -156>>]

(***************************************************************************)
(* The world a handler runs in: the caches and the history, as one record  *)
(* that the loaders transform                                              *)
(***************************************************************************)
World ==
    [ DATA_CACHE |-> DATA_CACHE,
      GEO_CACHE |-> GEO_CACHE,
      GEO_CACHE_ORDER |-> GEO_CACHE_ORDER,
      FLOW_CACHE |-> FLOW_CACHE,
      FLOW_CACHE_ORDER |-> FLOW_CACHE_ORDER,
      BOUNDARY_ID_CACHE |-> BOUNDARY_ID_CACHE,
      STATE_CENTROID_CACHE |-> STATE_CENTROID_CACHE,
      calls |-> <<>>,
      geoRecency |-> geoRecency,
      flowRecency |-> flowRecency ]

Commit(w) ==
    /\ DATA_CACHE' = w.DATA_CACHE
    /\ GEO_CACHE' = w.GEO_CACHE
    /\ GEO_CACHE_ORDER' = w.GEO_CACHE_ORDER
    /\ FLOW_CACHE' = w.FLOW_CACHE
    /\ FLOW_CACHE_ORDER' = w.FLOW_CACHE_ORDER
    /\ BOUNDARY_ID_CACHE' = w.BOUNDARY_ID_CACHE
    /\ STATE_CENTROID_CACHE' = w.STATE_CENTROID_CACHE
    /\ calls' = w.calls
    /\ geoRecency' = w.geoRecency
    /\ flowRecency' = w.flowRecency

\* What a function hands back: the world it leaves, the exception it raised
\* ("" for none) and its value.
Returned(w, value) == [w |-> w, exc |-> "", value |-> value]
Raised(w, exc) == [w |-> w, exc |-> exc, value |-> None]

\* History: an access (a hit or an insert) makes the key the latest one.
Touch(recency, key) == Append(SelectSeq(recency, LAMBDA k : k # key), key)
Call(fn, key, outcome) == [fn |-> fn, key |-> key, outcome |-> outcome]

(***************************************************************************)
(* load_geo and the bounded cache discipline (main.py 180-200)             *)
(***************************************************************************)
\* An eviction that tests len(order) > limit.
RECURSIVE evict_when_over(_, _, _)
evict_when_over(cache, order, limit) ==
    IF order # <<>> /\ Len(order) > limit
    THEN evict_when_over(DictPop(cache, Head(order)), Tail(order), limit)
    ELSE [cache |-> cache, order |-> order]

\* while order and len(order) >= limit: evict = order.pop(0); cache.pop(evict, None)
RECURSIVE evict_while_full(_, _, _)
evict_while_full(cache, order, limit) ==
    IF order # <<>> /\ Len(order) >= limit
    THEN evict_while_full(DictPop(cache, Head(order)), Tail(order), limit)
    ELSE [cache |-> cache, order |-> order]

\* A hit that leaves the recency list alone (first in, first out).
promote_never(order, key) == order

\* if key in order: order.remove(key); order.append(key)
promote(order, key) ==
    IF key \in Range(order) THEN Append(RemoveFirst(order, key), key) ELSE order

load_geo(w, level) ==
    IF level \notin DOMAIN w.GEO_CACHE
    THEN LET e == evict_while_full(w.GEO_CACHE, w.GEO_CACHE_ORDER, GEO_CACHE_LIMIT)
         IN  IF geoDisk[level] = None
             THEN Raised([w EXCEPT !.GEO_CACHE = e.cache,
                                   !.GEO_CACHE_ORDER = e.order,
                                   !.calls = Append(@, Call("load_geo", level, "fail"))],
                         "FileNotFoundError")
             ELSE Returned([w EXCEPT !.GEO_CACHE = DictSet(e.cache, level, Get(geoDisk[level])),
                                     !.GEO_CACHE_ORDER = Append(e.order, level),
                                     !.calls = Append(@, Call("load_geo", level, "miss")),
                                     !.geoRecency = Touch(@, level)],
                           Get(geoDisk[level]))
    ELSE Returned([w EXCEPT !.GEO_CACHE_ORDER = promote(@, level),
                            !.calls = Append(@, Call("load_geo", level, "hit")),
                            !.geoRecency = Touch(@, level)],
                  w.GEO_CACHE[level])

(***************************************************************************)
(* boundary_ids (main.py 203-225) and state_centroids (main.py 246-285)    *)
(***************************************************************************)
\* The canonical id of one feature, None where the feature is skipped.
boundary_id(level, feature) ==
    IF feature.id = None THEN None
    ELSE IF level = "state" THEN fips_text(Get(feature.id), 2)
    ELSE IF level = "county" THEN fips_text(Get(feature.id), 5)
    ELSE Some(upper(strip(Get(feature.id))))

boundary_ids(w, level) ==
    IF level \in DOMAIN w.BOUNDARY_ID_CACHE
    THEN Returned(w, w.BOUNDARY_ID_CACHE[level])
    ELSE LET g == load_geo(w, level)
         IN  IF g.exc # "" THEN g
             ELSE LET ids == {Get(boundary_id(level, g.value[i])) :
                                 i \in {j \in 1..Len(g.value) :
                                           boundary_id(level, g.value[j]) # None}}
                  IN  Returned([g.w EXCEPT !.BOUNDARY_ID_CACHE = DictSet(@, level, ids)], ids)

\* centroids[fips] = ... in the order of the features: a later feature of the
\* same fips overwrites an earlier one.
RECURSIVE centroids_of(_, _)
centroids_of(features, centroids) ==
    IF features = <<>> THEN centroids
    ELSE LET feature == Head(features)
             fips == IF feature.id = None THEN None ELSE fips_text(Get(feature.id), 2)
         IN  IF fips = None THEN centroids_of(Tail(features), centroids)
             ELSE IF Get(fips) \in DOMAIN SPECIAL_STATE_CENTROIDS
             THEN centroids_of(Tail(features),
                               DictSet(centroids, Get(fips), SPECIAL_STATE_CENTROIDS[Get(fips)]))
             ELSE IF feature.mid = None THEN centroids_of(Tail(features), centroids)
             ELSE centroids_of(Tail(features), DictSet(centroids, Get(fips), Get(feature.mid)))

state_centroids(w) ==
    IF w.STATE_CENTROID_CACHE # None
    THEN Returned(w, Get(w.STATE_CENTROID_CACHE))
    ELSE LET g == load_geo(w, "state")
         IN  IF g.exc # "" THEN g
             ELSE LET centroids == centroids_of(g.value, EmptyDict)
                  IN  Returned([g.w EXCEPT !.STATE_CENTROID_CACHE = Some(centroids)], centroids)

(***************************************************************************)
(* Flow files.  A raw row carries the columns of FLOW_COLUMNS that the     *)
(* normaliser reads; at state level only the two state names, the NAICS    *)
(* title, the agency and the amount are columns of the file, at county     *)
(* level there is no industry column.  A cell that pd.to_numeric coerces   *)
(* to NaN is None.                                                         *)
(***************************************************************************)
Place(full, alt, state, lat, lon) ==
    [full |-> full, alt |-> alt, state |-> state, lat |-> lat, lon |-> lon]

RawFlow(o, d, amount, agency, industry, year) ==
    [ rcpt_full_name |-> o.full, rcpt_alt_name |-> o.alt, rcpt_state |-> o.state,
      origin_lat |-> o.lat, origin_lon |-> o.lon,
      subawardee_full_name |-> d.full, subawardee_alt_name |-> d.alt,
      subawardee_state |-> d.state, dest_lat |-> d.lat, dest_lon |-> d.lon,
      subaward_amount |-> amount, agency_name |-> agency,
      industry_title |-> industry, act_dt_fis_yr |-> year ]

\* _normalize_text: astype("string").str.strip()
normalize_text(cell) == IF cell = None THEN None ELSE Some(strip(Get(cell)))

\* series.fillna(other)
fillna(cell, other) == IF cell = None THEN other ELSE cell

Canonical(oname, dname, ostate, dstate, olat, olon, dlat, dlon, amount, agency, industry, year) ==
    [ origin_name |-> oname, dest_name |-> dname,
      origin_state |-> ostate, dest_state |-> dstate,
      origin_lat |-> olat, origin_lon |-> olon, dest_lat |-> dlat, dest_lon |-> dlon,
      amount |-> amount, agency |-> agency, industry |-> industry, year |-> year ]

\* origin_state.str.lower().map(STATE_NAME_TO_FIPS)
state_fips(name) ==
    IF name = None THEN None
    ELSE IF lower(Get(name)) \in DOMAIN STATE_NAME_TO_FIPS
    THEN Some(STATE_NAME_TO_FIPS[lower(Get(name))])
    ELSE None

\* fips.map(lambda f: centroids.get(f, (None, None))[i] if f else None)
centroid_part(centroids, fips, i) ==
    IF fips = None THEN None
    ELSE IF Get(fips) \in DOMAIN centroids THEN Some(centroids[Get(fips)][i])
    ELSE None

\* _normalize_flow on one row (main.py 382-435); centroids is read at state
\* level only.
normalize_flow_row(level, row, centroids) ==
    IF level = "state"
    THEN LET origin_state == normalize_text(row.rcpt_full_name)
             dest_state == normalize_text(row.subawardee_full_name)
             origin_fips == state_fips(origin_state)
             dest_fips == state_fips(dest_state)
         IN  Canonical(origin_state, dest_state, origin_state, dest_state,
                       centroid_part(centroids, origin_fips, 1),
                       centroid_part(centroids, origin_fips, 2),
                       centroid_part(centroids, dest_fips, 1),
                       centroid_part(centroids, dest_fips, 2),
                       row.subaward_amount, normalize_text(row.agency_name),
                       normalize_text(row.industry_title), None)
    ELSE Canonical(normalize_text(fillna(row.rcpt_full_name, row.rcpt_alt_name)),
                   normalize_text(fillna(row.subawardee_full_name, row.subawardee_alt_name)),
                   normalize_text(row.rcpt_state), normalize_text(row.subawardee_state),
                   row.origin_lat, row.origin_lon, row.dest_lat, row.dest_lon,
                   row.subaward_amount, normalize_text(row.agency_name),
                   IF level = "congress" THEN normalize_text(row.industry_title) ELSE None,
                   row.act_dt_fis_yr)

\* The three cleaning steps of load_flow (main.py 466-468).  A comparison
\* with a missing name is pd.NA, which the boolean mask reads as False.
keeps_self_loops(r) ==
    /\ r.origin_lat # None /\ r.origin_lon # None
    /\ r.dest_lat # None /\ r.dest_lon # None
    /\ r.amount # None
    /\ Get(r.amount) > 0

survives_cleaning(r) ==
    /\ r.origin_lat # None /\ r.origin_lon # None
    /\ r.dest_lat # None /\ r.dest_lon # None
    /\ r.amount # None
    /\ Get(r.amount) > 0
    /\ r.origin_name # None /\ r.dest_name # None
    /\ r.origin_name # r.dest_name

clean_flow(normalized) == SelectSeq(normalized, survives_cleaning)

(***************************************************************************)
(* load_flow (main.py 438-475)                                             *)
(***************************************************************************)
load_flow(w, level) ==
    IF level \notin FLOW_LEVELS THEN Raised(w, "KeyError")
    ELSE IF level \notin DOMAIN w.FLOW_CACHE
    THEN LET e == evict_while_full(w.FLOW_CACHE, w.FLOW_CACHE_ORDER, FLOW_CACHE_LIMIT)
             w1 == [w EXCEPT !.FLOW_CACHE = e.cache, !.FLOW_CACHE_ORDER = e.order]
             failed(wx) == Raised([wx EXCEPT !.calls = Append(@, Call("load_flow", level, "fail"))],
                                  "FileNotFoundError")
         IN  IF flowDisk[level] = None THEN failed(w1)
             ELSE LET df == Get(flowDisk[level])
                      c == IF level = "state" THEN state_centroids(w1)
                           ELSE Returned(w1, EmptyDict)
                  IN  IF c.exc # "" THEN failed(c.w)
                      ELSE LET normalized == [i \in 1..Len(df) |->
                                                 normalize_flow_row(level, df[i], c.value)]
                               cleaned == clean_flow(normalized)
                           IN  Returned([c.w EXCEPT
                                            !.FLOW_CACHE = DictSet(@, level, cleaned),
                                            !.FLOW_CACHE_ORDER = Append(@, level),
                                            !.calls = Append(@, Call("load_flow", level, "miss")),
                                            !.flowRecency = Touch(@, level)],
                                        cleaned)
    ELSE Returned([w EXCEPT !.FLOW_CACHE_ORDER = promote(@, level),
                            !.calls = Append(@, Call("load_flow", level, "hit")),
                            !.flowRecency = Touch(@, level)],
                  w.FLOW_CACHE[level])

(***************************************************************************)
(* The rows the modelled flow files are made of.  Amounts are 3, 2, 1, 0   *)
(* and missing; the agencies are DoD, NASA and missing; same-route rows    *)
(* fall in one aggregation group.                                          *)
(***************************************************************************)
Howard == Place(Some("Howard"), Some("Howard"), Some("MD"), Some(39), Some(-77))
HowardPadded == Place(Some("Howard "), Some("Howard"), Some("MD"), Some(39), Some(-77))
Fairfax == Place(Some("Fairfax"), Some("Fairfax"), Some("VA"), Some(38), Some(-77))
FairfaxByAltName == Place(None, Some("Fairfax"), Some("VA"), Some(38), Some(-77))
FairfaxNoLat == Place(Some("Fairfax"), Some("Fairfax"), Some("VA"), None, Some(-77))
StatePlace(name) == Place(Some(name), None, None, None, None)

\* The county file has no industry column; the state file has no year.
FlowRowSamples(level) ==
    LET ind(x) == IF level = "county" THEN None ELSE Some(x)
    IN  IF level = "state"
        THEN << RawFlow(StatePlace(" Maryland"), StatePlace("Virginia"), Some(3), Some("DoD"), Some("Farming"), None),
                RawFlow(StatePlace("Maryland"), StatePlace("Virginia"), Some(2), Some("NASA"), Some("Mining"), None),
                RawFlow(StatePlace("Virginia"), StatePlace("Maryland"), Some(2), Some("NASA"), Some("Farming"), None),
                RawFlow(StatePlace("Maryland"), StatePlace("Virginia"), Some(2), None, Some("Farming"), None),
                RawFlow(StatePlace("Maryland"), StatePlace("Virginia"), Some(2), Some("NASA"), Some("Farming"), None),
                RawFlow(StatePlace("Maryland"), StatePlace(" Maryland"), Some(2), Some("DoD"), Some("Farming"), None),
                RawFlow(StatePlace("Maryland"), StatePlace("Virginia"), Some(0), Some("DoD"), Some("Farming"), None),
                RawFlow(StatePlace("Maryland"), StatePlace("Virginia"), None, Some("DoD"), Some("Farming"), None),
                RawFlow(StatePlace("Maryland"), StatePlace("Narnia"), Some(2), Some("DoD"), Some("Farming"), None) >>
        ELSE << RawFlow(Howard, Fairfax, Some(3), Some("DoD"), ind("Farming"), Some(2020)),
                RawFlow(Howard, Fairfax, Some(2), Some("NASA"), ind("Mining"), Some(2021)),
                RawFlow(Fairfax, Howard, Some(2), Some("NASA"), ind("Farming"), Some(2020)),
                RawFlow(Howard, FairfaxByAltName, Some(2), None, ind("Farming"), Some(2021)),
                RawFlow(Howard, Fairfax, Some(2), Some("NASA"), ind("Farming"), Some(2021)),
                RawFlow(Howard, HowardPadded, Some(2), Some("DoD"), ind("Farming"), Some(2020)),
                RawFlow(Howard, Fairfax, Some(0), Some("DoD"), ind("Farming"), Some(2020)),
                RawFlow(Howard, Fairfax, None, Some("DoD"), ind("Farming"), Some(2020)),
                RawFlow(Howard, FairfaxNoLat, Some(2), Some("DoD"), ind("Farming"), Some(2020)) >>

\* One file per level for the specifications that are not about its content.
SampleFlowFile(level) == SubSeq(FlowRowSamples(level), 1, 3)

(***************************************************************************)
(* Responses                                                               *)
(***************************************************************************)
Idle == [handler |-> "none", status |-> "none"]
\* raise HTTPException(status_code=404, detail=...)
NotFound(handler, detail) ==
    [handler |-> handler, status |-> "http_error", code |-> 404, detail |-> detail]
\* An exception no handler catches: the framework's server error.
\* An uncaught exception reported as an unknown dataset.
uncaught_as_not_found(handler, exc) ==
    [handler |-> handler, status |-> "http_error", code |-> 404, detail |-> "Unknown dataset"]

Uncaught(handler, exc) ==
    [handler |-> handler, status |-> "exception", exc |-> exc]

\* A response with the request it answers, kept as history.
About(answer, req) == answer @@ [request |-> req]

ConvIdle ==
    /\ wquintile = None
    /\ wwidth = None
    /\ nseries = <<>>
    /\ nnumeric = None

QIdle ==
    /\ qpc = "idle"
    /\ qvalues = <<>>
    /\ qthresholds = <<>>
    /\ qval = None
    /\ qquintile = <<>>
    /\ ConvIdle

EngineIdle ==
    /\ GEO_CACHE_LIMIT = 0
    /\ FLOW_CACHE_LIMIT = 0
    /\ geoDisk = <<>>
    /\ flowDisk = <<>>
    /\ dataDisk = <<>>
    /\ DATA_CACHE = EmptyDict
    /\ GEO_CACHE = EmptyDict
    /\ GEO_CACHE_ORDER = <<>>
    /\ FLOW_CACHE = EmptyDict
    /\ FLOW_CACHE_ORDER = <<>>
    /\ BOUNDARY_ID_CACHE = EmptyDict
    /\ STATE_CENTROID_CACHE = None
    /\ response = Idle
    /\ calls = <<>>
    /\ geoRecency = <<>>
    /\ flowRecency = <<>>
    /\ threads = <<>>

\* The caches as the module leaves them at import (main.py 131-137).
ColdCaches ==
    /\ DATA_CACHE = EmptyDict
    /\ GEO_CACHE = EmptyDict
    /\ GEO_CACHE_ORDER = <<>>
    /\ FLOW_CACHE = EmptyDict
    /\ FLOW_CACHE_ORDER = <<>>
    /\ BOUNDARY_ID_CACHE = EmptyDict
    /\ STATE_CENTROID_CACHE = None
    /\ response = Idle
    /\ calls = <<>>
    /\ geoRecency = <<>>
    /\ flowRecency = <<>>

\* The files of the data directory, those of the levels in missing absent.
GeoFilesExcept(missing) ==
    [level \in LEVELS |-> IF level \in missing THEN None ELSE Some(GeoFile(level))]

FlowFilesExcept(missing) ==
    [level \in LEVELS |-> IF level \in missing THEN None ELSE Some(SampleFlowFile(level))]

\* The response has been sent; the process waits for the next request.
Deliver ==
    /\ response.status # "none"
    /\ response' = Idle
    /\ calls' = <<>>
    /\ UNCHANGED <<qvars, cfgvars, cachevars, geoRecency, flowRecency, threads>>

(***************************************************************************)
(* GET /api/geo/{level} (main.py 702-706)                                  *)
(***************************************************************************)
geo(w, level) ==
    IF level \notin LEVELS
    THEN [w |-> w, response |-> NotFound("geo", "Unknown level")]
    ELSE LET g == load_geo(w, level)
         IN  IF g.exc # "" THEN [w |-> g.w, response |-> Uncaught("geo", g.exc)]
             ELSE [w |-> g.w,
                   response |-> [handler |-> "geo", status |-> "ok", level |-> level,
                                 body |-> g.value]]

GetGeo ==
    /\ response.status = "none"
    /\ \E level \in LEVELS \cup {"planet"} :
          LET r == geo(World, level)
          IN  Commit(r.w) /\ response' = r.response
    /\ UNCHANGED <<qvars, cfgvars, threads>>

(***************************************************************************)
(* GET /api/flow/options (main.py 748-773).  The lists are sorted and      *)
(* without repetition: sets here.  The six filter parameters are accepted  *)
(* and not read; the response keeps them as history.                       *)
(***************************************************************************)
present_values(df, field) ==
    {Get(df[i][field]) : i \in {j \in 1..Len(df) : df[j][field] # None}}

flow_options(w, level, agency, state, direction, naics, year_start, year_end) ==
    IF level \notin FLOW_LEVELS
    THEN [w |-> w, response |-> NotFound("flow_options", "Unknown level")]
    ELSE LET l == load_flow(w, level)
         IN  IF l.exc # "" THEN [w |-> l.w, response |-> Uncaught("flow_options", l.exc)]
             ELSE LET df == l.value
                  IN  [w |-> l.w,
                       response |->
                          [handler |-> "flow_options", status |-> "ok", level |-> level,
                           filters |-> [agency |-> agency, state |-> state,
                                        direction |-> direction, naics |-> naics,
                                        year_start |-> year_start, year_end |-> year_end],
                           agencies |-> present_values(df, "agency"),
                           states |-> present_values(df, "origin_state")
                                          \cup present_values(df, "dest_state"),
                           industries |-> present_values(df, "industry"),
                           years |-> IF level # "state" THEN present_values(df, "year")
                                     ELSE {}]]

FlowAgencies == {"All", "DoD"}
FlowIndustries == {"All", "Farming"}
FlowStates(level) == IF level = "state" THEN {"All", "Virginia"} ELSE {"All", "VA"}
FlowDirections == {"All", "Origin ", "inflow"}
FlowYearRanges == {<<None, None>>, <<Some(2021), None>>, <<None, Some(2020)>>}

GetFlowOptions ==
    /\ response.status = "none"
    /\ \E level \in FLOW_LEVELS \cup {"planet"}, agency \in FlowAgencies :
          LET r == flow_options(World, level, agency, "All", "All", "All", None, None)
          IN  Commit(r.w) /\ response' = r.response
    /\ UNCHANGED <<qvars, cfgvars, threads>>

(***************************************************************************)
(* GET /api/flow (main.py 776-879)                                         *)
(***************************************************************************)
FlowRequest(level, agency, state, direction, naics, year_start, year_end, limit) ==
    [ level |-> level, agency |-> agency, state |-> state, direction |-> direction,
      naics |-> naics, year_start |-> year_start, year_end |-> year_end, limit |-> limit ]

\* direction.strip().lower() on the directions the requests use.
direction_key(direction) ==
    CASE direction = "All" -> "all"
      [] direction = "Origin " -> "origin"
      [] OTHER -> direction

\* _apply_flow_filters (main.py 709-745): the filters in the order of the
\* code.  A comparison with a missing cell selects nothing.
apply_flow_filters(df, level, agency, state, direction, industry, year_start, year_end) ==
    LET by_agency ==
            IF agency # "" /\ agency # "All"
            THEN SelectSeq(df, LAMBDA r : r.agency = Some(agency)) ELSE df
        by_industry ==
            IF industry # "" /\ industry # "All"
            THEN SelectSeq(by_agency, LAMBDA r : r.industry = Some(industry)) ELSE by_agency
        by_start ==
            IF level # "state" /\ year_start # None
            THEN SelectSeq(by_industry,
                           LAMBDA r : r.year # None /\ Get(r.year) >= Get(year_start))
            ELSE by_industry
        by_end ==
            IF level # "state" /\ year_end # None
            THEN SelectSeq(by_start,
                           LAMBDA r : r.year # None /\ Get(r.year) <= Get(year_end))
            ELSE by_start
    IN  IF state # "" /\ state # "All"
        THEN IF direction_key(direction) \in {"origin", "outflow"}
             THEN SelectSeq(by_end, LAMBDA r : r.origin_state = Some(state))
             ELSE IF direction_key(direction) \in {"destination", "inflow"}
             THEN SelectSeq(by_end, LAMBDA r : r.dest_state = Some(state))
             ELSE SelectSeq(by_end, LAMBDA r : r.origin_state = Some(state)
                                               \/ r.dest_state = Some(state))
        ELSE by_end

\* group_fields (main.py 806-815)
group_key(r) ==
    << r.origin_name, r.dest_name, r.origin_state, r.dest_state,
       r.origin_lat, r.origin_lon, r.dest_lat, r.dest_lon >>

\* groupby(group_fields, dropna=False): one group per key that occurs.
group_keys(filtered) == {group_key(filtered[i]) : i \in 1..Len(filtered)}

sum_amount(rows) == SumSeq([i \in 1..Len(rows) |-> Get(rows[i].amount)])

\* agg(amount_sum=("amount", "sum"), record_count=("amount", "size"))
amount_sum(filtered, key) == sum_amount(SelectSeq(filtered, LAMBDA r : group_key(r) = key))
record_count(filtered, key) == Len(SelectSeq(filtered, LAMBDA r : group_key(r) = key))

\* groupby(group_fields + ["agency"], dropna=False)["amount"].sum(): what
\* each agency, the missing one too, adds to a group.
agency_amount(filtered, key, agency) ==
    sum_amount(SelectSeq(filtered, LAMBDA r : group_key(r) = key /\ r.agency = agency))

group_agencies(filtered, key) ==
    {filtered[i].agency : i \in {j \in 1..Len(filtered) : group_key(filtered[j]) = key}}

\* The agency of the largest single record of the group.
top_agencies_by_record(filtered, key) ==
    {filtered[i].agency :
        i \in {j \in 1..Len(filtered) :
                  /\ group_key(filtered[j]) = key
                  /\ \A k \in 1..Len(filtered) :
                        group_key(filtered[k]) = key =>
                            Get(filtered[k].amount) <= Get(filtered[j].amount)}}

\* sort_values(by="amount", ascending=False).drop_duplicates(subset=group_fields):
\* the first row of a group in the descending table is an agency whose sum
\* is the largest; among equal sums the sort decides.
top_agencies(filtered, key) ==
    {a \in group_agencies(filtered, key) :
        \A b \in group_agencies(filtered, key) :
            agency_amount(filtered, key, b) <= agency_amount(filtered, key, a)}

\* The first rows a descending sort may leave per group.
top_agency_choices(filtered, agency) ==
    IF agency # "" /\ agency # "All" THEN {EmptyDict}
    ELSE {t \in [group_keys(filtered) ->
                    UNION {group_agencies(filtered, k) : k \in group_keys(filtered)}] :
             \A k \in group_keys(filtered) : t[k] \in top_agencies(filtered, k)}

\* grouped["agency_label"] (main.py 821-835)
agency_label(agency, top_agency, key) ==
    IF agency # "" /\ agency # "All" THEN agency
    ELSE IF top_agency[key] = None THEN "Multiple Agencies"
    ELSE Get(top_agency[key])

\* sort_values(by="amount_sum", ascending=False): the orders of the groups
\* a descending sort may produce (groups of equal sums in either order).
RECURSIVE descending(_, _)
descending(filtered, keys) ==
    IF keys = {} THEN {<<>>}
    ELSE LET largest == {k \in keys :
                            \A other \in keys :
                               amount_sum(filtered, other) <= amount_sum(filtered, k)}
         IN  UNION {{<<k>> \o rest : rest \in descending(filtered, keys \ {k})} :
                       k \in largest}

rankings(filtered) == descending(filtered, group_keys(filtered))

\* The groups the thresholds are computed from: the truncated ones.
threshold_rows_after_limit(ranking, limited) == limited

\* all_amounts = grouped["amount_sum"] before grouped.head(limit) (main.py 841)
threshold_rows(ranking, limited) == ranking

\* A truncation that does not test the limit for 0.
head_always(ranking, limit) ==
    SubSeq(ranking, 1, IF limit < Len(ranking) THEN limit ELSE Len(ranking))

\* if limit and limit > 0: grouped = grouped.head(limit)
head_limit(ranking, limit) ==
    IF limit # 0 /\ limit > 0
    THEN SubSeq(ranking, 1, IF limit < Len(ranking) THEN limit ELSE Len(ranking))
    ELSE ranking

\* FLOW_WIDTH_BY_QUINTILE in tenths (0.5, 0.8, 1.2, 1.8, 2.5).
FLOW_WIDTH_BY_QUINTILE ==
    [q \in 1..5 |-> CASE q = 1 -> 5 [] q = 2 -> 8 [] q = 3 -> 12 [] q = 4 -> 18 [] q = 5 -> 25]

\* max(1, min(5, int(quintile) if quintile else 1)), then the table; None
\* and 0 are the false quintiles.
width_from_quintile(quintile) ==
    LET q0 == IF quintile # None /\ Get(quintile) # 0 THEN Get(quintile) ELSE 1
        q1 == IF q0 < 5 THEN q0 ELSE 5
        q == IF q1 > 1 THEN q1 ELSE 1
    IN  FLOW_WIDTH_BY_QUINTILE[q]

Max(S) == CHOOSE x \in S : \A y \in S : y <= x

\* The body of flow_data after the filters, for one outcome of its two sorts.
flow_body(filtered, agency, limit, ranking, top_agency) ==
    LET n == Len(ranking)
        sums == [i \in 1..n |-> amount_sum(filtered, ranking[i])]
        limited == head_limit(ranking, limit)
        basis == threshold_rows(ranking, limited)
        flow_thresholds ==
            quantile_thresholds([i \in 1..Len(basis) |-> Some(amount_sum(filtered, basis[i]))])
        names == {filtered[i].origin_name : i \in 1..Len(filtered)}
                     \cup {filtered[i].dest_name : i \in 1..Len(filtered)}
    IN  [ flows |->
            [i \in 1..Len(limited) |->
                LET key == limited[i]
                    amount == amount_sum(filtered, key)
                    quintile == get_quintile(Some(amount), flow_thresholds)
                IN  [ id |-> <<key[1], key[2], key[3], key[4]>>,
                      origin_name |-> key[1], dest_name |-> key[2],
                      origin_state |-> key[3], dest_state |-> key[4],
                      origin_lat |-> key[5], origin_lon |-> key[6],
                      dest_lat |-> key[7], dest_lon |-> key[8],
                      amount |-> amount,
                      agency |-> agency_label(agency, top_agency, key),
                      record_count |-> record_count(filtered, key),
                      quintile |-> quintile,
                      width |-> width_from_quintile(Some(quintile)) ]],
          stats |->
            [ total_amount |-> sum_amount(filtered),
              total_flows |-> Len(filtered),
              unique_locations |-> Cardinality(names \ {None}),
              max_amount |-> IF n > 0 THEN Max(Range(sums)) ELSE 0 ],
          thresholds |-> flow_thresholds ]

\* The rows flow_data aggregates: the cleaned table of the level after the
\* filters of the request (main.py 788-798).
flow_filtered(w, req) ==
    IF req.level \notin FLOW_LEVELS THEN <<>>
    ELSE LET l == load_flow(w, req.level)
         IN  IF l.exc # "" THEN <<>>
             ELSE apply_flow_filters(l.value, req.level, req.agency, req.state,
                                     req.direction, req.naics, req.year_start, req.year_end)

\* The handler, for one outcome of its two sorts; the request is kept with
\* the response as history.
flow_data(w, req, ranking, top_agency) ==
    IF req.level \notin FLOW_LEVELS
    THEN [w |-> w, response |-> NotFound("flow", "Unknown level")]
    ELSE LET l == load_flow(w, req.level)
         IN  IF l.exc # "" THEN [w |-> l.w, response |-> Uncaught("flow", l.exc)]
             ELSE LET body == flow_body(flow_filtered(w, req), req.agency, req.limit,
                                        ranking, top_agency)
                  IN  [w |-> l.w,
                       response |-> [handler |-> "flow", status |-> "ok", request |-> req,
                                     flows |-> body.flows, stats |-> body.stats,
                                     thresholds |-> body.thresholds]]

(***************************************************************************)
(* Dataset tables.  A table is its set of columns and its rows; a row      *)
(* holds the identifier cells of the level, the raw Year cell (written as  *)
(* Python prints it) and one cell per value column                         *)
(***************************************************************************)
DATASETS == {"census", "contract_static", "gov_spending", "finra"}
YEAR_COLUMN == "Year"

CENSUS_DERIVED_VARIABLES ==
    [variable \in {"Income >$50K", "Income >$100K", "Income >$200K"} |->
        CASE variable = "Income >$50K" -> <<"# of household", "Income <$50K">>
          [] variable = "Income >$100K" -> <<"# of household", "Income <$100K">>
          [] variable = "Income >$200K" -> <<"# of household", "Income <$200K">>]

ID_COLUMNS ==
    [level \in LEVELS |->
        CASE level = "state" -> {"state"}
          [] level = "county" -> {"county", "state", "fips"}
          [] level = "congress" -> {"cd_118"}]

\* A cell of a value column: a number, NaN, or a text, which is the sequence
\* of its characters.
Num(n) == [kind |-> "num", num |-> n, chars |-> <<>>]
NaN == [kind |-> "nan", num |-> 0, chars |-> <<>>]
Str(chars) == [kind |-> "text", num |-> 0, chars |-> chars]
Text == Str(<<"x">>)

Row(state, county, fips, cd_118, year, cells) ==
    [ state |-> state, county |-> county, fips |-> fips, cd_118 |-> cd_118,
      Year |-> year, cells |-> cells ]

Table(columns, rows) == [columns |-> columns, rows |-> rows]

\* A load_dataset that keeps an empty table under the key of a failed load.
load_dataset_caching_failure(w, dataset, level) ==
    LET cache_key == <<dataset, level>>
    IN  IF cache_key \notin DOMAIN w.DATA_CACHE
        THEN IF dataDisk[cache_key] = None
             THEN Raised([w EXCEPT !.DATA_CACHE = DictSet(@, cache_key, Table({}, <<>>)),
                                   !.calls = Append(@, Call("load_dataset", cache_key, "fail"))],
                         "FileNotFoundError")
             ELSE LET table == Get(dataDisk[cache_key])
                  IN  Returned([w EXCEPT !.DATA_CACHE = DictSet(@, cache_key, table),
                                         !.calls = Append(@, Call("load_dataset", cache_key, "miss"))],
                               table)
        ELSE Returned([w EXCEPT !.calls = Append(@, Call("load_dataset", cache_key, "hit"))],
                      w.DATA_CACHE[cache_key])

\* load_dataset (main.py 147-154); the cache key "dataset:level" is the pair.
load_dataset(w, dataset, level) ==
    LET cache_key == <<dataset, level>>
    IN  IF cache_key \notin DOMAIN w.DATA_CACHE
        THEN IF dataDisk[cache_key] = None
             THEN Raised([w EXCEPT !.calls = Append(@, Call("load_dataset", cache_key, "fail"))],
                         "FileNotFoundError")
             ELSE LET table == Get(dataDisk[cache_key])
                  IN  Returned([w EXCEPT !.DATA_CACHE = DictSet(@, cache_key, table),
                                         !.calls = Append(@, Call("load_dataset", cache_key, "miss"))],
                               table)
        ELSE Returned([w EXCEPT !.calls = Append(@, Call("load_dataset", cache_key, "hit"))],
                      w.DATA_CACHE[cache_key])

\* normalize_year_value (main.py 157-163) on the raw years of the tables
\* and of the requests: an integral number prints as the integer, any
\* other value as its stripped text.
normalize_year_value(value) ==
    IF value = None THEN None
    ELSE CASE Get(value) = "2020.0" -> Some("2020")
           [] OTHER -> Some(strip(Get(value)))

\* list_years (main.py 166-177): the normalized years in the order of
\* their first row, the empty ones left out.
RECURSIVE list_years_from(_, _)
list_years_from(rows, years) ==
    IF rows = <<>> THEN years
    ELSE LET normalized == normalize_year_value(Head(rows).Year)
         IN  IF normalized = None \/ normalized = Some("")
                \/ Get(normalized) \in Range(years)
             THEN list_years_from(Tail(rows), years)
             ELSE list_years_from(Tail(rows), Append(years, Get(normalized)))

list_years(df) ==
    IF YEAR_COLUMN \notin df.columns THEN <<>> ELSE list_years_from(df.rows, <<>>)

\* Characters: the decimal digits, and the other characters of the texts.
DigitChars == <<"0", "1", "2", "3", "4", "5", "6", "7", "8", "9">>

isdigit(ch) == \E d \in 1..10 : DigitChars[d] = ch

digit_value(ch) == (CHOOSE d \in 1..10 : DigitChars[d] = ch) - 1

\* int(raw) of a text of digits.
RECURSIVE int(_)
int(raw) ==
    IF raw = <<>> THEN 0
    ELSE 10 * int(SubSeq(raw, 1, Len(raw) - 1)) + digit_value(Last(raw))

\* str(n) of a number that is no negative one.
RECURSIVE decimal(_)
decimal(n) ==
    IF n < 10 THEN <<DigitChars[n + 1]>>
    ELSE Append(decimal(n \div 10), DigitChars[(n % 10) + 1])

\* raw.str.fullmatch(r"\d+")
fullmatch_digits(raw) == raw # <<>> /\ \A i \in 1..Len(raw) : isdigit(raw[i])

\* pd.to_numeric(errors="coerce") on a cell: of the texts, those of digits
\* are numbers.
to_numeric(cell) ==
    CASE cell.kind = "num" -> Some(cell.num)
      [] cell.kind = "nan" -> None
      [] cell.kind = "text" ->
            IF fullmatch_digits(cell.chars) THEN Some(int(cell.chars)) ELSE None

\* series.astype(str) on a cell of a column of dtype object.
astype_str(cell) ==
    CASE cell.kind = "num" -> decimal(cell.num)
      [] cell.kind = "nan" -> <<"n", "a", "n">>
      [] cell.kind = "text" -> cell.chars

\* A clean_long_numeric that tries the first five digits before the first six.
clean_long_numeric_five_first(value) ==
    IF value = None THEN None
    ELSE LET raw == SelectSeq(Get(value), isdigit)
         IN  IF Len(raw) < 5 THEN None
             ELSE LET first6 == IF Len(raw) >= 6 THEN Some(int(SubSeq(raw, 1, 6))) ELSE None
                      first5 == int(SubSeq(raw, 1, 5))
                  IN  IF 10000 <= first5 /\ first5 <= 200000 THEN Some(first5)
                      ELSE IF first6 # None /\ 10000 <= Get(first6) /\ Get(first6) <= 200000
                      THEN first6
                      ELSE None

\* clean_long_numeric (main.py 478-490); the value is a text, or None.
clean_long_numeric(value) ==
    IF value = None THEN None
    ELSE LET raw == SelectSeq(Get(value), isdigit)
         IN  IF Len(raw) < 5 THEN None
             ELSE LET first6 == IF Len(raw) >= 6 THEN Some(int(SubSeq(raw, 1, 6))) ELSE None
                      first5 == int(SubSeq(raw, 1, 5))
                  IN  IF first6 # None /\ 10000 <= Get(first6) /\ Get(first6) <= 200000
                      THEN first6
                      ELSE IF 10000 <= first5 /\ first5 <= 200000 THEN Some(first5)
                      ELSE None

\* A column has dtype object when one of its cells is a text.
dtype_object(series) == \E i \in 1..Len(series) : series[i].kind = "text"

\* numeric_series (main.py 493-501).  The two means are compared as
\* fractions: count / n > 0.8 and count / n > 0.2.
numeric_series(series) ==
    LET n == Len(series)
        raw == [i \in 1..n |-> astype_str(series[i])]
        digits_only == Cardinality({i \in 1..n : fullmatch_digits(raw[i])})
        long == Cardinality({i \in 1..n : Len(raw[i]) > 10})
    IN  IF dtype_object(series) /\ 5 * digits_only > 4 * n /\ 5 * long > n
        THEN [i \in 1..n |-> clean_long_numeric(Some(raw[i]))]
        ELSE [i \in 1..n |-> to_numeric(series[i])]

\* df[variable] for a value column.
column(df, variable) == [i \in 1..Len(df.rows) |-> df.rows[i].cells[variable]]

\* numeric_series(df[total_col]) - numeric_series(df[less_col])
difference(total, less) ==
    [i \in 1..Len(total) |->
        IF total[i] = None \/ less[i] = None THEN None
        ELSE Some(Get(total[i]) - Get(less[i]))]

\* df[variable] = ...: the table with one more value column.
with_column(df, variable, series) ==
    Table(df.columns \cup {variable},
          [i \in 1..Len(df.rows) |->
              [df.rows[i] EXCEPT !.cells =
                  DictSet(@, variable, IF series[i] = None THEN NaN ELSE Num(Get(series[i])))]])

\* str(cell) and the truth of a cell: a missing cell is NaN, which prints as
\* "nan" and is true.
str(cell) == IF cell = None THEN "nan" ELSE Get(cell)
truthy(cell) == cell = None \/ Get(cell) # ""

(***************************************************************************)
(* build_records (main.py 570-617)                                         *)
(***************************************************************************)
\* record_id of a row; "ValueError" where int(fips) raises.
record_id(level, row) ==
    IF level = "state"
    THEN LET name == lower(strip(str(row.state)))
         IN  Returned(<<>>, IF name \in DOMAIN STATE_NAME_TO_FIPS
                            THEN Some(STATE_NAME_TO_FIPS[name]) ELSE None)
    ELSE IF level = "county"
    THEN IF row.fips = None THEN Returned(<<>>, None)
         ELSE IF fips_text(Get(row.fips), 5) = None THEN Raised(<<>>, "ValueError")
         ELSE Returned(<<>>, fips_text(Get(row.fips), 5))
    ELSE Returned(<<>>, IF truthy(row.cd_118) THEN Some(upper(strip(str(row.cd_118))))
                        ELSE None)

\* label of a row, as the parts the f-string joins.
record_label(level, row) ==
    IF level = "state"
    THEN LET name == lower(strip(str(row.state)))
         IN  IF name # "" THEN <<title(name)>> ELSE <<"Unknown">>
    ELSE IF level = "county"
    THEN LET county == IF truthy(row.county) THEN title(strip(str(row.county)))
                       ELSE "Unknown"
             state == IF truthy(row.state) THEN lower(strip(str(row.state))) ELSE ""
             abbr == IF state \in DOMAIN STATE_NAME_TO_ABBR THEN STATE_NAME_TO_ABBR[state]
                     ELSE ""
         IN  IF abbr # "" THEN <<county, abbr>> ELSE <<county>>
    ELSE LET id == record_id(level, row).value
         IN  IF id # None /\ Get(id) # "" THEN <<Get(id)>> ELSE <<"Unknown">>

\* allowed_ids is not None and record_id not in allowed_ids
not_allowed(allowed_ids, id) == id = None \/ Get(id) \notin allowed_ids

\* The values the thresholds are computed from: those of every row.
threshold_values_unfiltered(records, values) == values

\* filtered_values: the values of the rows kept, the missing ones left out.
threshold_values(records, values) ==
    SelectSeq([i \in 1..Len(records) |-> records[i].value], LAMBDA v : v # None)

\* The loop over the rows and the classification (main.py 578-615), values
\* being the numeric column.
records_of(df, level, values, allowed_ids) ==
    LET n == Len(df.rows)
    IN  IF \E i \in 1..n : record_id(level, df.rows[i]).exc # ""
        THEN Raised(<<>>, "ValueError")
        ELSE LET kept == SelectSeq([i \in 1..n |-> i],
                                   LAMBDA i : ~not_allowed(allowed_ids,
                                                           record_id(level, df.rows[i]).value))
                 records == [k \in 1..Len(kept) |->
                                [ id |-> record_id(level, df.rows[kept[k]]).value,
                                  label |-> record_label(level, df.rows[kept[k]]),
                                  value |-> values[kept[k]] ]]
                 thresholds == quantile_thresholds(threshold_values(records, values))
             IN  Returned(<<>>,
                    [ records |->
                        [k \in 1..Len(records) |->
                            [ id |-> records[k].id, label |-> records[k].label,
                              value |-> records[k].value,
                              quintile |-> IF records[k].value # None
                                           THEN get_quintile(records[k].value, thresholds)
                                           ELSE 0 ]],
                      thresholds |-> thresholds ])

build_records(df, level, variable, allowed_ids) ==
    records_of(df, level, numeric_series(column(df, variable)), allowed_ids)

(***************************************************************************)
(* GET /api/values (main.py 653-699)                                       *)
(***************************************************************************)
\* summarize (main.py 546-567); mean and median are kept as fractions
\* <<numerator, denominator>>.
summarize(values) ==
    LET clean == clean_values(values)
    IN  IF clean = <<>>
        THEN [count |-> 0, min |-> None, max |-> None, mean |-> None, median |-> None]
        ELSE LET sorted_vals == sorted(clean)
                 n == Len(sorted_vals)
                 mid == n \div 2
             IN  [ count |-> n,
                   min |-> Some(sorted_vals[1]),
                   max |-> Some(sorted_vals[n]),
                   mean |-> Some(<<SumSeq(sorted_vals), n>>),
                   median |-> IF n % 2 # 0 THEN Some(<<sorted_vals[mid + 1], 1>>)
                              ELSE Some(<<sorted_vals[mid] + sorted_vals[mid + 1], 2>>) ]

\* list.sort(key=value, reverse=True): stable, the records of equal value
\* stay in the order they had.
RECURSIVE InsertDesc(_, _)
\* An insertion that puts a record before the records of its value.
RECURSIVE InsertDescBeforeTies(_, _)
InsertDescBeforeTies(s, r) ==
    IF s = <<>> THEN <<r>>
    ELSE IF Get(Last(s).value) > Get(r.value) THEN Append(s, r)
    ELSE Append(InsertDescBeforeTies(SubSeq(s, 1, Len(s) - 1), r), Last(s))

InsertDesc(s, r) ==
    IF s = <<>> THEN <<r>>
    ELSE IF Get(Last(s).value) >= Get(r.value) THEN Append(s, r)
    ELSE Append(InsertDesc(SubSeq(s, 1, Len(s) - 1), r), Last(s))

RECURSIVE sort_descending(_)
sort_descending(records) ==
    IF records = <<>> THEN <<>>
    ELSE InsertDesc(sort_descending(SubSeq(records, 1, Len(records) - 1)), Last(records))

Reverse(s) == [i \in 1..Len(s) |-> s[Len(s) + 1 - i]]

TopCount == 10

label_and_value(records) ==
    [i \in 1..Len(records) |-> [label |-> records[i].label, value |-> records[i].value]]

ValuesRequest(dataset, level, variable, year) ==
    [dataset |-> dataset, level |-> level, variable |-> variable, year |-> year]

\* A frame a handler holds: its table, and whether it is the object that
\* the dataset cache holds (a write into it is then a write into the cache).
Frame(table, cached) == [table |-> table, cached |-> cached]

\* The year whose rows are selected (main.py 662-665), None or "" for none.
selected_year(df, year) ==
    LET available_years == list_years(df)
        asked == IF year # None THEN normalize_year_value(year) ELSE None
    IN  IF (asked = None \/ asked = Some("")) /\ available_years # <<>>
        THEN Some(Last(available_years))
        ELSE asked

\* The rows of the selected year (main.py 661-667): df[mask] is a new frame,
\* and without a selection df stays the frame it was.
select_year(df, year) ==
    IF YEAR_COLUMN \in df.table.columns
    THEN LET selected == selected_year(df.table, year)
         IN  IF selected # None /\ selected # Some("")
             THEN Frame(Table(df.table.columns,
                              SelectSeq(df.table.rows,
                                        LAMBDA r : normalize_year_value(r.Year) = selected)),
                        FALSE)
             ELSE df
    ELSE df

\* A df.copy() that hands back the frame it was given.
copy_shared(df) == df

\* df.copy() (main.py 673).
copy(df) == Frame(df.table, FALSE)

\* df[variable] = series (main.py 674): a write into the frame df names.
set_column(w, cache_key, df, variable, series) ==
    LET table == with_column(df.table, variable, series)
    IN  [ w |-> IF df.cached THEN [w EXCEPT !.DATA_CACHE[cache_key] = table] ELSE w,
          df |-> Frame(table, df.cached) ]

\* The response of a successful request (main.py 684-699).
values_response(w, built, sorted_records, req) ==
    LET n == Len(sorted_records)
    IN  [ w |-> w,
          response |->
            [ handler |-> "values", status |-> "ok", request |-> req,
              records |-> built.records,
              thresholds |-> built.thresholds,
              stats |-> summarize([i \in 1..Len(built.records) |-> built.records[i].value]),
              top |-> label_and_value(
                        SubSeq(sorted_records, 1, IF n < TopCount THEN n ELSE TopCount)),
              bottom |-> label_and_value(
                           Reverse(SubSeq(sorted_records,
                               IF n > TopCount THEN n - TopCount + 1 ELSE 1, n))) ] ]

\* After build_records (main.py 681-683): the records with a value, sorted.
values_of_records(w, built, req) ==
    IF built.exc # ""
    THEN [w |-> w, response |-> About(Uncaught("values", built.exc), req)]
    ELSE values_response(w, built.value,
             sort_descending(SelectSeq(built.value.records, LAMBDA r : r.value # None)),
             req)

\* After boundary_ids (main.py 679-680), df being the frame of the rows.
values_of_boundaries(b, df, req) ==
    IF b.exc # "" THEN [w |-> b.w, response |-> About(Uncaught("values", b.exc), req)]
    ELSE values_of_records(b.w, build_records(df, req.level, req.variable, b.value), req)

\* After the year selection (main.py 669-679): the derived census column is
\* written into a copy of the frame.
values_of_year(w, of_year, req) ==
    LET derived == /\ req.dataset = "census"
                   /\ req.variable \in DOMAIN CENSUS_DERIVED_VARIABLES
                   /\ req.variable \notin of_year.table.columns
        total_col == CENSUS_DERIVED_VARIABLES[req.variable][1]
        less_col == CENSUS_DERIVED_VARIABLES[req.variable][2]
    IN  IF \/ derived /\ (total_col \notin of_year.table.columns
                          \/ less_col \notin of_year.table.columns)
           \/ ~derived /\ req.variable \notin of_year.table.columns
        THEN [w |-> w, response |-> About(NotFound("values", "Unknown variable"), req)]
        ELSE IF derived
        THEN LET written ==
                     set_column(w, <<req.dataset, req.level>>, copy(of_year), req.variable,
                         difference(numeric_series(column(of_year.table, total_col)),
                                    numeric_series(column(of_year.table, less_col))))
             IN  values_of_boundaries(boundary_ids(written.w, req.level),
                                      written.df.table, req)
        ELSE values_of_boundaries(boundary_ids(w, req.level), of_year.table, req)

\* After load_dataset (main.py 660-667).
values_of_dataset(d, req) ==
    IF d.exc # "" THEN [w |-> d.w, response |-> About(Uncaught("values", d.exc), req)]
    ELSE values_of_year(d.w, select_year(Frame(d.value, TRUE), req.year), req)

\* The handler; the request is kept with the response as history.
values(w, req) ==
    IF req.dataset \notin DATASETS
    THEN [w |-> w, response |-> About(NotFound("values", "Unknown dataset"), req)]
    ELSE IF req.level \notin LEVELS
    THEN [w |-> w, response |-> About(NotFound("values", "Unknown level"), req)]
    ELSE values_of_dataset(load_dataset(w, req.dataset, req.level), req)

(***************************************************************************)
(* GET /api/variables (main.py 630-650).  The columns of a table are a     *)
(* set, and so is the list of the variables.                               *)
(***************************************************************************)
CENSUS_INCOME_REPLACEMENTS ==
    [col \in {"Income <$50K", "Income <$100K", "Income <$200K"} |->
        CASE col = "Income <$50K" -> "Income >$50K"
          [] col = "Income <$100K" -> "Income >$100K"
          [] col = "Income <$200K" -> "Income >$200K"]

\* The loop over the census columns (main.py 640-648).
adjusted(df, columns) ==
    (columns \ DOMAIN CENSUS_INCOME_REPLACEMENTS)
        \cup {CENSUS_INCOME_REPLACEMENTS[col] :
                 col \in {c \in columns \cap DOMAIN CENSUS_INCOME_REPLACEMENTS :
                             CENSUS_INCOME_REPLACEMENTS[c] \notin df.columns}}

VariablesRequest(dataset, level) == [dataset |-> dataset, level |-> level]

list_variables(w, req) ==
    IF req.dataset \notin DATASETS
    THEN [w |-> w, response |-> About(NotFound("variables", "Unknown dataset"), req)]
    ELSE IF req.level \notin LEVELS
    THEN [w |-> w, response |-> About(NotFound("variables", "Unknown level"), req)]
    ELSE LET d == load_dataset(w, req.dataset, req.level)
         IN  IF d.exc # "" THEN [w |-> d.w, response |-> About(Uncaught("variables", d.exc), req)]
             ELSE LET df == d.value
                      columns == (df.columns \ ID_COLUMNS[req.level]) \ {YEAR_COLUMN}
                  IN  [ w |-> d.w,
                        response |->
                          [ handler |-> "variables", status |-> "ok", request |-> req,
                            variables |-> IF req.dataset = "census"
                                          THEN adjusted(df, columns) ELSE columns,
                            years |-> list_years(df) ] ]

GetVariables ==
    /\ response.status = "none"
    /\ \E dataset \in {"census", "finra", "bogus"}, level \in LEVELS \cup {"planet"} :
          LET r == list_variables(World, VariablesRequest(dataset, level))
          IN  Commit(r.w) /\ response' = r.response
    /\ UNCHANGED <<qvars, cfgvars, threads>>

(***************************************************************************)
(* SpecCache: requests that go through load_geo and load_flow, one at a    *)
(* time, for every capacity from 1 to MaxLimit and with files missing      *)
(***************************************************************************)
MaxLimit == 2

InitCache ==
    /\ QIdle
    /\ GEO_CACHE_LIMIT \in 1..MaxLimit
    /\ FLOW_CACHE_LIMIT \in 1..MaxLimit
    /\ \E missing \in {{}, {"state"}, {"congress"}} :
          geoDisk = GeoFilesExcept(missing)
    /\ \E missing \in {{}, {"county"}} :
          flowDisk = FlowFilesExcept(missing)
    /\ dataDisk = <<>>
    /\ ColdCaches
    /\ threads = <<>>

NextCache == GetGeo \/ GetFlowOptions \/ Deliver

SpecCache == InitCache /\ [][NextCache]_vars

(***************************************************************************)
(* SpecFlow: flow requests over one flow file of up to MaxFlowRows rows    *)
(***************************************************************************)
MaxFlowRows == 3
MaxFlowLimit == 2
DefaultCacheLimit == 2

\* The files of up to MaxFlowRows different sample rows, in the order of the
\* samples.
FlowTables(level) ==
    LET rows == FlowRowSamples(level)
    IN  {[i \in 1..Len(ix) |-> rows[ix[i]]] :
            ix \in {jx \in SeqsUpTo(1..Len(rows), MaxFlowRows) :
                       \A i \in 1..(Len(jx) - 1) : jx[i] < jx[i + 1]}}

\* The requests: the filters vary on the level that has a file.
FlowRequests(level) ==
    IF level \in FLOW_LEVELS /\ flowDisk[level] # None
    THEN {FlowRequest(level, agency, sd[1], sd[2], naics, years[1], years[2], limit) :
             agency \in FlowAgencies, naics \in FlowIndustries,
             sd \in {<<"All", "All">>} \cup ((FlowStates(level) \ {"All"}) \X FlowDirections),
             years \in FlowYearRanges, limit \in 0..MaxFlowLimit}
    ELSE {FlowRequest(level, "All", "All", "All", "All", None, None, 0)}

GetFlow ==
    /\ response.status = "none"
    /\ \E level \in FLOW_LEVELS \cup {"planet"} :
          \E req \in FlowRequests(level) :
             LET filtered == flow_filtered(World, req)
             IN  \E ranking \in rankings(filtered),
                    top_agency \in top_agency_choices(filtered, req.agency) :
                    LET r == flow_data(World, req, ranking, top_agency)
                    IN  Commit(r.w) /\ response' = r.response
    /\ UNCHANGED <<qvars, cfgvars, threads>>

InitFlow ==
    /\ QIdle
    /\ GEO_CACHE_LIMIT = DefaultCacheLimit
    /\ FLOW_CACHE_LIMIT = DefaultCacheLimit
    /\ geoDisk = GeoFilesExcept({})
    /\ \E level \in FLOW_LEVELS :
          \E table \in FlowTables(level) :
             flowDisk = [l \in FLOW_LEVELS |-> IF l = level THEN Some(table) ELSE None]
    /\ dataDisk = <<>>
    /\ ColdCaches
    /\ threads = <<>>

NextFlow == GetFlow \/ Deliver

SpecFlow == InitFlow /\ [][NextFlow]_vars

(***************************************************************************)
(* C8: with a capacity K >= 1, after any sequence of load_geo (load_flow)  *)
(* calls made one at a time the cache holds at most K entries, and its     *)
(* keys are exactly the keys of its recency list, none listed twice.       *)
(***************************************************************************)
BoundedAndListed(cache, order, limit) ==
    /\ Cardinality(DOMAIN cache) <= limit
    /\ DOMAIN cache = Range(order)
    /\ \A k \in Range(order) : Count(order, k) = 1

C8_BoundedCaches ==
    /\ GEO_CACHE_LIMIT >= 1 /\ FLOW_CACHE_LIMIT >= 1
    /\ BoundedAndListed(GEO_CACHE, GEO_CACHE_ORDER, GEO_CACHE_LIMIT)
    /\ BoundedAndListed(FLOW_CACHE, FLOW_CACHE_ORDER, FLOW_CACHE_LIMIT)

\* Both caches are full and each has evicted a key it had loaded.
C8_Witness ==
    /\ Len(GEO_CACHE_ORDER) = GEO_CACHE_LIMIT
    /\ Len(geoRecency) > GEO_CACHE_LIMIT
    /\ Len(FLOW_CACHE_ORDER) = FLOW_CACHE_LIMIT
    /\ Len(flowRecency) > FLOW_CACHE_LIMIT

(***************************************************************************)
(* C9: a hit moves the key to the most-recently-used end of the recency    *)
(* list and leaves the cached set as it was; a successful miss at capacity *)
(* evicts exactly the cached key whose last access (hit or insert) is the  *)
(* oldest, and inserts the new key as the most recently used.              *)
(***************************************************************************)
PositionIn(s, k) == CHOOSE i \in 1..Len(s) : s[i] = k

\* One step of one cache domain: before (cache, order), the history of
\* accesses before the step, and after (cache2, order2, calls2).
LruStep(fn, limit, cache, order, recency, cache2, order2, calls2) ==
    \A i \in 1..Len(calls2) :
        calls2[i].fn = fn =>
            LET key == calls2[i].key
                cached == DOMAIN cache
            IN  /\ key \in cached =>
                     /\ cache2 = cache
                     /\ order2 = Append(SelectSeq(order, LAMBDA k : k # key), key)
                /\ (key \notin cached /\ calls2[i].outcome # "fail"
                        /\ Cardinality(cached) = limit) =>
                     LET lru == CHOOSE k \in cached :
                                    \A j \in cached : PositionIn(recency, k) <= PositionIn(recency, j)
                     IN  /\ cached \subseteq Range(recency)
                         /\ DOMAIN cache2 = (cached \ {lru}) \cup {key}
                         /\ order2 = Append(SelectSeq(order, LAMBDA k : k # lru), key)

C9_LruDiscipline ==
    [][ /\ LruStep("load_geo", GEO_CACHE_LIMIT, GEO_CACHE, GEO_CACHE_ORDER, geoRecency,
                   GEO_CACHE', GEO_CACHE_ORDER', calls')
        /\ LruStep("load_flow", FLOW_CACHE_LIMIT, FLOW_CACHE, FLOW_CACHE_ORDER, flowRecency,
                   FLOW_CACHE', FLOW_CACHE_ORDER', calls') ]_vars

\* county, then state, then a hit on county, then congress with a capacity
\* of 2: state, not county, has been evicted.
C9_Witness ==
    /\ GEO_CACHE_LIMIT = 2
    /\ geoRecency = <<"state", "county", "congress">>
    /\ GEO_CACHE_ORDER = <<"county", "congress">>
    /\ calls = <<Call("load_geo", "congress", "miss")>>
    /\ FLOW_CACHE_ORDER # <<>>

(***************************************************************************)
(* SpecValues: value requests over one dataset table of up to MaxRows rows *)
(***************************************************************************)
MaxRows == 3

Cells(pop, households, below) ==
    [c \in {"Pop", "# of household", "Income <$50K"} |->
        CASE c = "Pop" -> pop
          [] c = "# of household" -> households
          [] c = "Income <$50K" -> below]

\* Sample rows: rows inside the boundary file, rows whose id is not in it,
\* rows without an id, missing and non-numeric values, and at county level
\* a fips that is no number.
RowSamples(level) ==
    CASE level = "state" ->
           << Row(Some(" Maryland"), None, None, None, Some("2020"), Cells(Num(3), Num(5), Num(2))),
              Row(Some("Alaska"), None, None, None, Some("2020.0"), Cells(Num(1), Num(4), NaN)),
              Row(Some("Texas"), None, None, None, Some("2020"), Cells(Num(2), Num(3), Num(1))),
              Row(Some("Narnia"), None, None, None, Some("2020"), Cells(Num(4), Num(6), Num(1))),
              Row(Some("Virginia"), None, None, None, Some(" 2021"), Cells(Text, Num(2), Num(1))),
              Row(None, None, None, None, None, Cells(Num(5), Num(2), Num(2))) >>
      [] level = "county" ->
           << Row(Some(" Maryland"), Some("howard "), Some("24027"), None, Some("2020"), Cells(Num(3), Num(5), Num(2))),
              Row(None, None, Some("1001"), None, Some("2020.0"), Cells(Num(1), Num(4), NaN)),
              Row(Some("Virginia"), Some("fairfax"), Some("51059"), None, Some("2020"), Cells(Num(2), Num(3), Num(1))),
              Row(Some(" Maryland"), Some("howard "), None, None, Some("2020"), Cells(Num(4), Num(6), Num(1))),
              Row(Some("Maryland"), Some("howard "), Some("24027"), None, Some(" 2021"), Cells(Text, Num(2), Num(1))),
              Row(Some("Virginia"), Some("fairfax"), Some("xx"), None, None, Cells(Num(5), Num(2), Num(2))) >>
      [] level = "congress" ->
           << Row(None, None, None, Some(" md-02"), Some("2020"), Cells(Num(3), Num(5), Num(2))),
              Row(None, None, None, Some("md-01"), Some("2020.0"), Cells(Num(1), Num(4), NaN)),
              Row(None, None, None, Some("va-08"), Some("2020"), Cells(Num(2), Num(3), Num(1))),
              Row(None, None, None, Some(""), Some("2020"), Cells(Num(4), Num(6), Num(1))),
              Row(None, None, None, Some("md-01"), Some(" 2021"), Cells(Text, Num(2), Num(1))),
              Row(None, None, None, None, None, Cells(Num(5), Num(2), Num(2))) >>

\* The value columns a file may have, with or without a Year column, and
\* the dataset it is the file of.
TableShapes ==
    { <<"finra", {"Pop"}>>,
      <<"finra", {"Pop", YEAR_COLUMN}>>,
      <<"census", {"Pop", YEAR_COLUMN, "# of household", "Income <$50K"}>>,
      <<"census", {"Pop", "Income <$50K"}>> }

\* A sample row as a row of a file of the columns given.
RowOf(row, columns) ==
    [row EXCEPT !.Year = IF YEAR_COLUMN \in columns THEN @ ELSE None,
                !.cells = [c \in (DOMAIN @) \cap columns |-> @[c]]]

\* The files of up to MaxRows different sample rows, in any order.
DatasetTables(level, columns) ==
    LET rows == RowSamples(level)
    IN  {Table(ID_COLUMNS[level] \cup columns, [i \in 1..Len(ix) |-> RowOf(rows[ix[i]], columns)]) :
            ix \in {jx \in SeqsUpTo(1..Len(rows), MaxRows) :
                       \A i, j \in 1..Len(jx) : i # j => jx[i] # jx[j]}}

RequestYears == {None, Some("2020"), Some(" 2021"), Some("")}
RequestVariables == {"Pop", "Income >$50K", "Income >$100K", "Bogus"}

\* The requests: variable and year vary on the dataset and level that have
\* a file; no request asks for an identifier or Year column as its variable.
ValuesRequests(dataset, level) ==
    IF dataset \in DATASETS /\ level \in LEVELS /\ dataDisk[<<dataset, level>>] # None
    THEN {ValuesRequest(dataset, level, variable, year) :
             variable \in RequestVariables, year \in RequestYears}
    ELSE {ValuesRequest(dataset, level, "Pop", None)}

GetValues ==
    /\ response.status = "none"
    /\ \E dataset \in {"census", "finra", "bogus"}, level \in LEVELS \cup {"planet"} :
          \E req \in ValuesRequests(dataset, level) :
             LET r == values(World, req)
             IN  Commit(r.w) /\ response' = r.response
    /\ UNCHANGED <<qvars, cfgvars, threads>>

InitValues ==
    /\ QIdle
    /\ GEO_CACHE_LIMIT = DefaultCacheLimit
    /\ FLOW_CACHE_LIMIT = DefaultCacheLimit
    /\ geoDisk = GeoFilesExcept({})
    /\ flowDisk = FlowFilesExcept({})
    /\ \E level \in LEVELS, shape \in TableShapes :
          \E table \in DatasetTables(level, shape[2]) :
             dataDisk = [key \in DATASETS \X LEVELS |->
                            IF key = <<shape[1], level>> THEN Some(table) ELSE None]
    /\ ColdCaches
    /\ threads = <<>>

NextValues == GetValues \/ GetVariables \/ Deliver

SpecValues == InitValues /\ [][NextValues]_vars

(***************************************************************************)
(* SpecMissing: requests for flow options and for variables over a data    *)
(* directory some of whose files are absent at first and are put in place  *)
(* once a load has failed on them.  The state boundary file is read by       *)
(* load_flow through state_centroids.                                      *)
(***************************************************************************)
\* The dataset files that may be absent, and their content once in place.
InstallableData == {<<"finra", "state">>}

InstalledTable(key) ==
    Table(ID_COLUMNS[key[2]] \cup {"Pop"},
          <<RowOf(RowSamples(key[2])[1], {"Pop"}), RowOf(RowSamples(key[2])[3], {"Pop"})>>)

\* The request being answered has failed in the load of the key: the
\* operator puts a file in place after the failure it caused is seen.
FailedOn(fn, key) ==
    \E i \in 1..Len(calls) :
        calls[i].fn = fn /\ calls[i].key = key /\ calls[i].outcome = "fail"

InstallGeoFile ==
    /\ \E level \in LEVELS :
          /\ geoDisk[level] = None
          /\ FailedOn("load_geo", level)
          /\ geoDisk' = [geoDisk EXCEPT ![level] = Some(GeoFile(level))]
    /\ UNCHANGED <<qvars, GEO_CACHE_LIMIT, FLOW_CACHE_LIMIT, flowDisk, dataDisk, cachevars,
                   response, histvars, threads>>

InstallFlowFile ==
    /\ \E level \in FLOW_LEVELS :
          /\ flowDisk[level] = None
          /\ FailedOn("load_flow", level)
          /\ flowDisk' = [flowDisk EXCEPT ![level] = Some(SampleFlowFile(level))]
    /\ UNCHANGED <<qvars, GEO_CACHE_LIMIT, FLOW_CACHE_LIMIT, geoDisk, dataDisk, cachevars,
                   response, histvars, threads>>

InstallDataFile ==
    /\ \E key \in InstallableData :
          /\ dataDisk[key] = None
          /\ FailedOn("load_dataset", key)
          /\ dataDisk' = [dataDisk EXCEPT ![key] = Some(InstalledTable(key))]
    /\ UNCHANGED <<qvars, GEO_CACHE_LIMIT, FLOW_CACHE_LIMIT, geoDisk, flowDisk, cachevars,
                   response, histvars, threads>>

\* The boundary and flow files absent at first.
MissingBoundaries == {"state"}
MissingFlows == {"county"}

InitMissing ==
    /\ QIdle
    /\ GEO_CACHE_LIMIT = DefaultCacheLimit
    /\ FLOW_CACHE_LIMIT = DefaultCacheLimit
    /\ geoDisk = GeoFilesExcept(MissingBoundaries)
    /\ flowDisk = FlowFilesExcept(MissingFlows)
    /\ dataDisk = [key \in DATASETS \X LEVELS |-> None]
    /\ ColdCaches
    /\ threads = <<>>

NextMissing ==
    \/ GetGeo
    \/ GetFlowOptions
    \/ GetVariables
    \/ InstallGeoFile
    \/ InstallFlowFile
    \/ InstallDataFile
    \/ Deliver

SpecMissing == InitMissing /\ [][NextMissing]_vars

(***************************************************************************)
(* The value handler: claim C1 under SpecValues                            *)
(***************************************************************************)
ValuesResponded == response.handler = "values" /\ response.status = "ok"

\* The normalized ids of the boundary file of the level, from the file.
BoundarySet(level) ==
    LET features == Get(geoDisk[level])
    IN  {Get(boundary_id(level, features[i])) :
            i \in {j \in 1..Len(features) : boundary_id(level, features[j]) # None}}

InBoundary(record, level) == record.id # None /\ Get(record.id) \in BoundarySet(level)

PresentValues(records) ==
    SelectSeq([i \in 1..Len(records) |-> records[i].value], LAMBDA v : v # None)

\* C1: every record of a values answer has an id of the boundary set of the
\* level; the thresholds are those of the present values of the returned
\* records and each quintile is the class of the record's value under them
\* (0 for a missing value); filtering the records by the boundary set again
\* leaves them as they are.
C1_BoundaryFilteredRecords ==
    ValuesResponded =>
        LET records == response.records
            level == response.request.level
        IN  /\ \A i \in 1..Len(records) : InBoundary(records[i], level)
            /\ response.thresholds = quantile_thresholds(PresentValues(records))
            /\ \A i \in 1..Len(records) :
                  records[i].quintile =
                      IF records[i].value = None THEN 0
                      ELSE get_quintile(records[i].value,
                                        quantile_thresholds(PresentValues(records)))
            /\ SelectSeq(records, LAMBDA r : InBoundary(r, level)) = records

\* A file of three rows without a Year column answered with two records,
\* the value of the row left out lying above theirs.
C1_Witness ==
    /\ ValuesResponded
    /\ response.request.variable = "Pop"
    /\ LET table == DATA_CACHE[<<response.request.dataset, response.request.level>>]
       IN  /\ YEAR_COLUMN \notin table.columns
           /\ Len(table.rows) = 3
           /\ Len(response.records) = 2
           /\ \A i \in 1..2 : response.records[i].value # None
           /\ \E j \in 1..3 :
                 /\ table.rows[j].cells["Pop"].kind = "num"
                 /\ \A i \in 1..2 :
                       table.rows[j].cells["Pop"].num > Get(response.records[i].value)

(***************************************************************************)
(* The flow aggregator: claims C4 to C7 under SpecFlow                     *)
(***************************************************************************)
FlowResponded == response.handler = "flow" /\ response.status = "ok"

FilterApplied(choice) == choice # "" /\ choice # "All"

\* What the request asks of a record, said at once rather than filter by
\* filter.
PassesFilters(r, req) ==
    /\ FilterApplied(req.agency) => r.agency = Some(req.agency)
    /\ FilterApplied(req.naics) => r.industry = Some(req.naics)
    /\ (req.level # "state" /\ req.year_start # None) =>
          (r.year # None /\ Get(r.year) >= Get(req.year_start))
    /\ (req.level # "state" /\ req.year_end # None) =>
          (r.year # None /\ Get(r.year) <= Get(req.year_end))
    /\ FilterApplied(req.state) =>
          CASE req.direction \in {"origin", "Origin ", "outflow"} ->
                  r.origin_state = Some(req.state)
            [] req.direction \in {"destination", "inflow"} ->
                  r.dest_state = Some(req.state)
            [] OTHER -> (r.origin_state = Some(req.state) \/ r.dest_state = Some(req.state))

\* The cached records of the level of the answered request that pass its
\* filters.
PassingRecords ==
    SelectSeq(FLOW_CACHE[response.request.level],
              LAMBDA r : PassesFilters(r, response.request))

SameGroup(r, edge) ==
    /\ r.origin_name = edge.origin_name /\ r.dest_name = edge.dest_name
    /\ r.origin_state = edge.origin_state /\ r.dest_state = edge.dest_state
    /\ r.origin_lat = edge.origin_lat /\ r.origin_lon = edge.origin_lon
    /\ r.dest_lat = edge.dest_lat /\ r.dest_lon = edge.dest_lon

RecordAmounts(records) == SumSeq([i \in 1..Len(records) |-> Get(records[i].amount)])

\* C4: when a flow request is answered with limit 0, the amounts of the
\* returned edges add up to the amounts of the cached records that pass the
\* filters, which is also stats.total_amount, and the record counts of the
\* edges add up to the number of these records.
C4_UnlimitedSums ==
    (FlowResponded /\ response.request.limit = 0) =>
        LET edges == response.flows
        IN  /\ SumSeq([i \in 1..Len(edges) |-> edges[i].amount]) = RecordAmounts(PassingRecords)
            /\ response.stats.total_amount = RecordAmounts(PassingRecords)
            /\ SumSeq([i \in 1..Len(edges) |-> edges[i].record_count]) = Len(PassingRecords)

\* An unlimited answer of two edges or more, one of them made of several
\* records.
C4_Witness ==
    /\ FlowResponded /\ response.request.limit = 0
    /\ Len(response.flows) >= 2
    /\ \E i \in 1..Len(response.flows) : response.flows[i].record_count >= 2

\* C5: no cached flow record has equal origin and destination names, a
\* missing or non-positive amount or a missing coordinate, and every edge
\* of a flow answer has different origin and destination names and a
\* positive amount.
C5_CleanRecordsAndEdges ==
    /\ \A level \in DOMAIN FLOW_CACHE :
          \A i \in 1..Len(FLOW_CACHE[level]) :
             LET r == FLOW_CACHE[level][i]
             IN  /\ r.origin_name # r.dest_name
                 /\ r.amount # None /\ Get(r.amount) > 0
                 /\ r.origin_lat # None /\ r.origin_lon # None
                 /\ r.dest_lat # None /\ r.dest_lon # None
    /\ FlowResponded =>
          \A i \in 1..Len(response.flows) :
             /\ response.flows[i].origin_name # response.flows[i].dest_name
             /\ response.flows[i].amount > 0

\* The file holds a row whose names are equal once stripped, the cache
\* holds fewer rows than the file, and the answer has edges.
C5_Witness ==
    /\ FlowResponded /\ Len(response.flows) > 0
    /\ LET level == response.request.level
       IN  /\ \E i \in 1..Len(Get(flowDisk[level])) :
                 Get(flowDisk[level])[i] = FlowRowSamples(level)[6]
           /\ Len(FLOW_CACHE[level]) < Len(Get(flowDisk[level]))

\* The answers flow_data may give to the answered request under the limit
\* asked, from the caches as they are.
AnswersUnder(limit) ==
    LET req == [response.request EXCEPT !.limit = limit]
        filtered == flow_filtered(World, req)
    IN  {flow_data(World, req, ranking, top_agency).response :
            ranking \in rankings(filtered),
            top_agency \in top_agency_choices(filtered, req.agency)}

SameEdge(e, f) ==
    /\ e.origin_name = f.origin_name /\ e.dest_name = f.dest_name
    /\ e.origin_state = f.origin_state /\ e.dest_state = f.dest_state
    /\ e.origin_lat = f.origin_lat /\ e.origin_lon = f.origin_lon
    /\ e.dest_lat = f.dest_lat /\ e.dest_lon = f.dest_lon

\* C6: the answer to the same level and filters under any other limit has
\* the same thresholds, and an edge that is in both answers has the same
\* quintile and the same width in both.
C6_ThresholdsIgnoreLimit ==
    FlowResponded =>
        \A limit \in 0..MaxFlowLimit :
           \A other \in AnswersUnder(limit) :
              /\ other.thresholds = response.thresholds
              /\ \A i \in 1..Len(response.flows), j \in 1..Len(other.flows) :
                    SameEdge(response.flows[i], other.flows[j]) =>
                        /\ response.flows[i].quintile = other.flows[j].quintile
                        /\ response.flows[i].width = other.flows[j].width

\* An answer cut to one edge whose thresholds come from a smaller group
\* that was not returned.
C6_Witness ==
    /\ FlowResponded /\ response.request.limit = 1
    /\ Len(response.flows) = 1
    /\ response.thresholds # <<>>
    /\ response.thresholds[1] < response.flows[1].amount

AgencyLabel(agency) == IF agency = None THEN "Multiple Agencies" ELSE Get(agency)

\* What the records of an agency (the missing one too) add to an edge.
Contribution(edge, agency) ==
    RecordAmounts(SelectSeq(PassingRecords,
                            LAMBDA r : SameGroup(r, edge) /\ r.agency = agency))

Contributors(edge) ==
    {PassingRecords[i].agency :
        i \in {j \in 1..Len(PassingRecords) : SameGroup(PassingRecords[j], edge)}}

\* C7: with an agency filter every edge of a flow answer is labelled with
\* the agency asked; without one, the label of an edge is that of an agency
\* that adds the largest summed amount to the edge, the placeholder
\* standing for the missing agency and for nothing else.
C7_AgencyLabel ==
    FlowResponded =>
        \A i \in 1..Len(response.flows) :
           LET edge == response.flows[i]
           IN  IF FilterApplied(response.request.agency)
               THEN edge.agency = response.request.agency
               ELSE \E top \in Contributors(edge) :
                       /\ \A a \in Contributors(edge) :
                             Contribution(edge, a) <= Contribution(edge, top)
                       /\ edge.agency = AgencyLabel(top)

\* No agency filter, and an edge of three records whose largest record is of
\* one agency while the two others, of another agency, add up to more.
C7_Witness ==
    /\ FlowResponded /\ ~FilterApplied(response.request.agency)
    /\ \E i \in 1..Len(response.flows) :
          /\ response.flows[i].record_count = 3
          /\ response.flows[i].amount = 7
          /\ response.flows[i].agency = "NASA"

(***************************************************************************)
(* SpecQuantile: the classifier's two functions applied to bounded inputs  *)
(***************************************************************************)
MaxValues == 6
QVals == {1, 2, 3}
QOptVals == {None} \cup {Some(v) : v \in QVals}
QThresholdVectors == [1..4 -> 0..3]

InitQuantile ==
    /\ EngineIdle
    /\ qpc = "start"
    /\ qvalues \in SeqsUpTo(QOptVals, MaxValues)
    /\ qthresholds = <<>>
    /\ qval = None
    /\ qquintile = <<>>
    /\ ConvIdle

\* thresholds = quantile_thresholds(values)
QuantileThresholds ==
    /\ qpc = "start"
    /\ qthresholds' = quantile_thresholds(qvalues)
    /\ qpc' = "computed"
    /\ UNCHANGED <<qvalues, qval, qquintile, convvars, enginevars>>

\* A caller hands get_quintile a threshold vector of its own.
SupplyThresholds ==
    /\ qpc = "start"
    /\ qvalues = <<>>
    /\ \E t \in QThresholdVectors : qthresholds' = t
    /\ qpc' = "supplied"
    /\ UNCHANGED <<qvalues, qval, qquintile, convvars, enginevars>>

\* quintile = get_quintile(val, thresholds)
GetQuintile ==
    /\ qpc \in {"computed", "supplied"}
    /\ \E v \in QOptVals \cup {Some(0), Some(4)} :
          /\ qval' = v
          /\ qquintile' = <<get_quintile(v, qthresholds)>>
    /\ UNCHANGED <<qpc, qvalues, qthresholds, convvars, enginevars>>

NextQuantile == QuantileThresholds \/ SupplyThresholds \/ GetQuintile

SpecQuantile == InitQuantile /\ [][NextQuantile]_vars

(***************************************************************************)
(* C2: quantile_thresholds drops the missing values and returns, for       *)
(* p = 0.2, 0.4, 0.6, 0.8, the element at 0-based index floor(p * (n - 1)) *)
(* of the n remaining values in ascending order; the four results are      *)
(* non-decreasing and members of the input; with no value left it returns  *)
(* [0, 0, 0, 0].                                                           *)
(***************************************************************************)
\* x is the element at 0-based index i of the ascending order of the bag s.
IsRanked(s, i, x) ==
    /\ x \in Range(s)
    /\ Cardinality({j \in 1..Len(s) : s[j] < x}) <= i
    /\ i < Cardinality({j \in 1..Len(s) : s[j] <= x})

C2_NearestRank ==
    qpc = "computed" =>
        LET present == {j \in 1..Len(qvalues) : qvalues[j] # None}
            n == Cardinality(present)
            bag == clean_values(qvalues)
        IN  /\ Len(qthresholds) = 4
            /\ n = 0 => qthresholds = <<0, 0, 0, 0>>
            /\ n > 0 =>
                 /\ \A k \in 1..4 : IsRanked(bag, (k * (n - 1)) \div 5, qthresholds[k])
                 /\ \A k \in 1..3 : qthresholds[k] <= qthresholds[k + 1]
                 /\ \A k \in 1..4 : Some(qthresholds[k]) \in Range(qvalues)

\* Six present values whose cut points fall on the ranks 1, 2, 3 and 4 and
\* give three different thresholds.
C2_Witness ==
    /\ qpc = "computed"
    /\ Len(qvalues) = 6
    /\ \A j \in 1..6 : qvalues[j] # None
    /\ qthresholds = <<1, 2, 2, 3>>

(***************************************************************************)
(* C3: get_quintile returns 0 for a missing value, else the 1-based index  *)
(* of the first threshold with v <= threshold (a tie falls in the lower    *)
(* class), else 5; it is monotonic in v for every threshold vector, and    *)
(* its result is in 0..5.                                                  *)
(***************************************************************************)
FirstAtOrAbove(v, t) ==
    LET S == {i \in 1..4 : v <= t[i]}
    IN  IF S = {} THEN 5 ELSE CHOOSE i \in S : \A j \in S : i <= j

C3_Classify ==
    /\ qquintile # <<>> =>
         /\ Get(qquintile) \in 0..5
         /\ IsMissing(qval) => Get(qquintile) = 0
         /\ ~IsMissing(qval) => Get(qquintile) = FirstAtOrAbove(Get(qval), qthresholds)
    /\ qthresholds # <<>> =>
         \A v1, v2 \in 0..4 :
             v1 <= v2 => get_quintile(Some(v1), qthresholds) <= get_quintile(Some(v2), qthresholds)

\* A value equal to a threshold that is not the first one, under a supplied
\* vector that is not sorted.
C3_Witness ==
    /\ qpc = "supplied"
    /\ qthresholds = <<1, 3, 2, 3>>
    /\ qval = Some(3)
    /\ qquintile = <<2>>

(***************************************************************************)
(* SpecRace: the loaders run by two request threads at once.  The handlers *)
(* are plain functions, which the framework runs in a thread pool, and the *)
(* loaders take no lock: a step is one test or one update of a dict or a   *)
(* list, and the steps of the two threads interleave in any order.  All    *)
(* the calls of a behaviour are calls of one loader.                       *)
(***************************************************************************)
Threads == {"a", "b"}
MaxCalls == 2

Loaders == {"load_dataset", "load_geo", "load_flow"}

\* The keys the threads ask for; the file of census:state is missing.
LoaderKeys(fn) ==
    CASE fn = "load_dataset" -> {<<"finra", "state">>, <<"census", "state">>}
      [] fn = "load_geo" -> {<<"", "state">>, <<"", "county">>}
      [] fn = "load_flow" -> {<<"", "county">>, <<"", "congress">>}

NoCall ==
    [ pc |-> "idle", fn |-> "", dataset |-> "", level |-> "", missed |-> FALSE,
      loaded |-> FALSE, evict_level |-> "", ncalls |-> 0, exc |-> "" ]

\* The key of the call of a thread in the cache of its loader.
cache_key(th) == IF th.fn = "load_dataset" THEN <<th.dataset, th.level>> ELSE th.level

cache_of(fn) ==
    CASE fn = "load_dataset" -> DATA_CACHE
      [] fn = "load_geo" -> GEO_CACHE
      [] fn = "load_flow" -> FLOW_CACHE

order_of(fn) == IF fn = "load_geo" THEN GEO_CACHE_ORDER ELSE FLOW_CACHE_ORDER
limit_of(fn) == IF fn = "load_geo" THEN GEO_CACHE_LIMIT ELSE FLOW_CACHE_LIMIT

file_of(th) ==
    CASE th.fn = "load_dataset" -> dataDisk[cache_key(th)]
      [] th.fn = "load_geo" -> geoDisk[th.level]
      [] th.fn = "load_flow" -> flowDisk[th.level]

\* What the loader stores for the file: the table read, the feature
\* collection parsed, the flow rows normalized and cleaned (county and
\* congress rows are normalized without the state centroids).
parsed(th) ==
    IF th.fn = "load_flow"
    THEN clean_flow([i \in 1..Len(Get(file_of(th))) |->
                        normalize_flow_row(th.level, Get(file_of(th))[i], EmptyDict)])
    ELSE Get(file_of(th))

\* A step of thread t: its loader's cache and list become cache and order,
\* the thread becomes th.
Step(t, th, cache, order) ==
    /\ threads' = [threads EXCEPT ![t] = th]
    /\ DATA_CACHE' = IF th.fn = "load_dataset" THEN cache ELSE DATA_CACHE
    /\ GEO_CACHE' = IF th.fn = "load_geo" THEN cache ELSE GEO_CACHE
    /\ GEO_CACHE_ORDER' = IF th.fn = "load_geo" THEN order ELSE GEO_CACHE_ORDER
    /\ FLOW_CACHE' = IF th.fn = "load_flow" THEN cache ELSE FLOW_CACHE
    /\ FLOW_CACHE_ORDER' = IF th.fn = "load_flow" THEN order ELSE FLOW_CACHE_ORDER
    /\ UNCHANGED <<qvars, cfgvars, BOUNDARY_ID_CACHE, STATE_CENTROID_CACHE, response, histvars>>

\* A step that only moves the thread.
Move(t, th) == Step(t, th, cache_of(th.fn), order_of(th.fn))

At(t, pc) == threads[t].pc = pc
Goto(th, pc) == [th EXCEPT !.pc = pc]
Raise(th, exc) == [th EXCEPT !.pc = "raised", !.exc = exc]

\* A request thread enters a loader.
Begin(t) ==
    /\ threads[t].pc \in {"idle", "done", "raised"}
    /\ threads[t].ncalls < MaxCalls
    /\ \E fn \in Loaders :
          /\ \A u \in Threads : threads[u].fn \in {"", fn}
          /\ \E key \in LoaderKeys(fn) :
                Move(t, [NoCall EXCEPT !.pc = "check", !.fn = fn, !.dataset = key[1],
                                       !.level = key[2], !.ncalls = threads[t].ncalls + 1])

\* if key not in cache (main.py 149, 181, 441)
CheckMembership(t) ==
    /\ At(t, "check")
    /\ LET th == threads[t]
       IN  IF cache_key(th) \notin DOMAIN cache_of(th.fn)
           THEN Move(t, [th EXCEPT !.missed = TRUE,
                                   !.pc = IF th.fn = "load_dataset" THEN "exists"
                                          ELSE "evict_test"])
           ELSE Move(t, Goto(th, IF th.fn = "load_dataset" THEN "return" ELSE "hit_test"))

\* while order and len(order) >= LIMIT (main.py 182, 442)
EvictTest(t) ==
    /\ At(t, "evict_test")
    /\ LET th == threads[t]
       IN  IF order_of(th.fn) # <<>> /\ Len(order_of(th.fn)) >= limit_of(th.fn)
           THEN Move(t, Goto(th, "pop_order"))
           ELSE Move(t, Goto(th, "exists"))

\* evict_level = order.pop(0) (main.py 183, 443): IndexError on an empty list
PopOrder(t) ==
    /\ At(t, "pop_order")
    /\ LET th == threads[t]
       IN  IF order_of(th.fn) = <<>> THEN Move(t, Raise(th, "IndexError"))
           ELSE Step(t, [th EXCEPT !.pc = "pop_cache", !.evict_level = Head(order_of(th.fn))],
                     cache_of(th.fn), Tail(order_of(th.fn)))

\* cache.pop(evict_level, None) (main.py 184, 444)
PopCache(t) ==
    /\ At(t, "pop_cache")
    /\ LET th == threads[t]
       IN  Step(t, Goto(th, "evict_test"), DictPop(cache_of(th.fn), th.evict_level),
                order_of(th.fn))

\* if not os.path.exists(path): raise FileNotFoundError (main.py 151, 191, 446)
FileExists(t) ==
    /\ At(t, "exists")
    /\ LET th == threads[t]
       IN  IF file_of(th) = None THEN Move(t, Raise(th, "FileNotFoundError"))
           ELSE Move(t, Goto(th, "read"))

\* pd.read_excel / json.load of the file (main.py 153, 194, 449-468)
ReadFile(t) ==
    /\ At(t, "read")
    /\ Move(t, [threads[t] EXCEPT !.pc = "insert", !.loaded = TRUE])

\* cache[key] = the value read (main.py 153, 194, 469)
Insert(t) ==
    /\ At(t, "insert")
    /\ LET th == threads[t]
       IN  Step(t, Goto(th, IF th.fn = "load_dataset" THEN "return" ELSE "append"),
                DictSet(cache_of(th.fn), cache_key(th), parsed(th)), order_of(th.fn))

\* order.append(key) after the insert (main.py 195, 470)
AppendOnMiss(t) ==
    /\ At(t, "append")
    /\ LET th == threads[t]
       IN  Step(t, Goto(th, "return"), cache_of(th.fn), Append(order_of(th.fn), th.level))

\* if key in order (main.py 197, 472)
HitTest(t) ==
    /\ At(t, "hit_test")
    /\ LET th == threads[t]
       IN  IF th.level \in Range(order_of(th.fn)) THEN Move(t, Goto(th, "remove"))
           ELSE Move(t, Goto(th, "return"))

\* order.remove(key) (main.py 198, 473): ValueError when the key is not there
RemoveFromOrder(t) ==
    /\ At(t, "remove")
    /\ LET th == threads[t]
       IN  IF th.level \notin Range(order_of(th.fn)) THEN Move(t, Raise(th, "ValueError"))
           ELSE Step(t, Goto(th, "hit_append"), cache_of(th.fn),
                     RemoveFirst(order_of(th.fn), th.level))

\* order.append(key) on a hit (main.py 199, 474)
AppendOnHit(t) ==
    /\ At(t, "hit_append")
    /\ LET th == threads[t]
       IN  Step(t, Goto(th, "return"), cache_of(th.fn), Append(order_of(th.fn), th.level))

\* return cache[key] (main.py 154, 200, 475): KeyError when the key is gone
Return(t) ==
    /\ At(t, "return")
    /\ LET th == threads[t]
       IN  IF cache_key(th) \in DOMAIN cache_of(th.fn) THEN Move(t, Goto(th, "done"))
           ELSE Move(t, Raise(th, "KeyError"))

InitRace ==
    /\ QIdle
    /\ GEO_CACHE_LIMIT \in 1..MaxLimit
    /\ FLOW_CACHE_LIMIT = GEO_CACHE_LIMIT
    /\ geoDisk = GeoFilesExcept({})
    /\ flowDisk = FlowFilesExcept({})
    /\ dataDisk = [key \in DATASETS \X LEVELS |->
                      IF key = <<"finra", "state">>
                      THEN Some(Table(ID_COLUMNS["state"] \cup {"Pop"},
                                      <<RowOf(RowSamples("state")[1], {"Pop"})>>))
                      ELSE None]
    /\ ColdCaches
    /\ threads = [t \in Threads |-> NoCall]

NextRace ==
    \E t \in Threads :
       \/ Begin(t)
       \/ CheckMembership(t)
       \/ EvictTest(t)
       \/ PopOrder(t)
       \/ PopCache(t)
       \/ FileExists(t)
       \/ ReadFile(t)
       \/ Insert(t)
       \/ AppendOnMiss(t)
       \/ HitTest(t)
       \/ RemoveFromOrder(t)
       \/ AppendOnHit(t)
       \/ Return(t)

SpecRace == InitRace /\ [][NextRace]_vars

\* Two calls of the same loader for the same key that both found it missing
\* and have both returned.
RacedOn(t, u) ==
    /\ t # u
    /\ threads[t].fn # "" /\ threads[t].fn = threads[u].fn
    /\ cache_key(threads[t]) = cache_key(threads[u])
    /\ threads[t].missed /\ threads[u].missed
    /\ threads[t].pc = "done" /\ threads[u].pc = "done"

\* C10: when two calls of a loader for the same key have both found the
\* key missing, the file is read by one of them only, and once both have
\* returned the key is in the cache and exactly once in the recency list.
C10_LoadedOnceListedOnce ==
    \A t, u \in Threads :
       RacedOn(t, u) =>
           /\ ~(threads[t].loaded /\ threads[u].loaded)
           /\ cache_key(threads[t]) \in DOMAIN cache_of(threads[t].fn)
           /\ threads[t].fn # "load_dataset" =>
                 Count(order_of(threads[t].fn), threads[t].level) = 1

\* C11: under any interleaving of load_geo calls (and of load_flow calls),
\* in every state the cache holds at most K entries, every key of the
\* recency list is a cached key, and no call that found its key cached
\* ends with an exception.
C11_SafeUnderInterleaving ==
    /\ \A fn \in {"load_geo", "load_flow"} :
          /\ Cardinality(DOMAIN cache_of(fn)) <= limit_of(fn)
          /\ Range(order_of(fn)) \subseteq DOMAIN cache_of(fn)
    /\ \A t \in Threads :
          (threads[t].fn \in {"load_geo", "load_flow"} /\ threads[t].pc = "raised")
              => threads[t].missed


(***************************************************************************)
(* Failed loads: claim C12 under SpecMissing                               *)
(***************************************************************************)
\* The key of a call is cached, or listed, in the caches given.
CachedIn(c, data, geos, flows) ==
    CASE c.fn = "load_dataset" -> c.key \in DOMAIN data
      [] c.fn = "load_geo" -> c.key \in DOMAIN geos
      [] c.fn = "load_flow" -> c.key \in DOMAIN flows

ListedIn(c, geo_order, flow_order) ==
    CASE c.fn = "load_dataset" -> FALSE
      [] c.fn = "load_geo" -> c.key \in Range(geo_order)
      [] c.fn = "load_flow" -> c.key \in Range(flow_order)

\* A file the load of the call reads is absent: its own file, and for the
\* state flows the state boundary file while no centroids are kept.
SourceAbsent(c) ==
    CASE c.fn = "load_dataset" -> dataDisk[c.key] = None
      [] c.fn = "load_geo" -> geoDisk[c.key] = None
      [] c.fn = "load_flow" ->
            \/ flowDisk[c.key] = None
            \/ c.key = "state" /\ STATE_CENTROID_CACHE = None /\ geoDisk["state"] = None

\* C12: a load that fails because its file is absent leaves its key out of
\* the cache and out of the recency list, and a call for a key that is not
\* cached reads the disk again: it fails exactly when a file is absent now,
\* and never answers from a remembered failure.
C12_FailedLoadNotCached ==
    [][ calls' # calls =>
          \A i \in 1..Len(calls') :
             LET c == calls'[i]
             IN  /\ c.outcome = "fail" =>
                      /\ SourceAbsent(c)
                      /\ ~CachedIn(c, DATA_CACHE', GEO_CACHE', FLOW_CACHE')
                      /\ ~ListedIn(c, GEO_CACHE_ORDER', FLOW_CACHE_ORDER')
                 /\ ~CachedIn(c, DATA_CACHE, GEO_CACHE, FLOW_CACHE) =>
                      /\ c.outcome # "hit"
                      /\ c.outcome = "fail" <=> SourceAbsent(c)
                      /\ c.outcome = "miss" =>
                             CachedIn(c, DATA_CACHE', GEO_CACHE', FLOW_CACHE') ]_vars

\* A file that was absent is there only once a load of it has failed.  Each
\* loader has failed on its file, and a request is answered from the load of
\* one of them.
InstalledKey(c) ==
    CASE c.fn = "load_dataset" -> c.key \in InstallableData
      [] c.fn = "load_geo" -> c.key \in MissingBoundaries
      [] c.fn = "load_flow" -> c.key \in MissingFlows

C12_Witness ==
    /\ response.status = "ok"
    /\ \E i \in 1..Len(calls) :
          calls[i].outcome = "miss" /\ InstalledKey(calls[i])
    /\ \A level \in LEVELS : geoDisk[level] # None /\ flowDisk[level] # None
    /\ \A key \in InstallableData : dataDisk[key] # None


(***************************************************************************)
(* Cached tables are never written: claim C13 under SpecValues             *)
(***************************************************************************)
\* The process as it is before its first request.
ColdWorld ==
    [ World EXCEPT !.DATA_CACHE = EmptyDict, !.GEO_CACHE = EmptyDict,
                   !.GEO_CACHE_ORDER = <<>>, !.FLOW_CACHE = EmptyDict,
                   !.FLOW_CACHE_ORDER = <<>>, !.BOUNDARY_ID_CACHE = EmptyDict,
                   !.STATE_CENTROID_CACHE = None, !.calls = <<>>,
                   !.geoRecency = <<>>, !.flowRecency = <<>> ]

\* What the first request of a process is answered.
FirstAnswer(answer) ==
    IF answer.handler = "values" THEN values(ColdWorld, answer.request).response
    ELSE list_variables(ColdWorld, answer.request).response

C14_OptionsAfterFiltering ==
    (response.handler = "flow_options" /\ response.status = "ok") =>
        LET f == response.filters
            passing == apply_flow_filters(FLOW_CACHE[response.level], response.level,
                                          f.agency, f.state, f.direction, f.naics,
                                          f.year_start, f.year_end)
        IN  /\ response.agencies = present_values(passing, "agency")
            /\ response.states = present_values(passing, "origin_state")
                                     \cup present_values(passing, "dest_state")
            /\ response.industries = present_values(passing, "industry")
            /\ response.years = IF response.level # "state"
                                THEN present_values(passing, "year") ELSE {}


(***************************************************************************)
(* The year of a values answer: claim C15 under SpecValues                 *)
(***************************************************************************)
\* The order of the year strings of the tables.
year_rank(y) == CASE y = "2020" -> 1 [] y = "2021" -> 2

GreatestYear(years) ==
    CHOOSE y \in Range(years) : \A z \in Range(years) : year_rank(z) <= year_rank(y)

RowsOfYear(table, y) ==
    Table(table.columns, SelectSeq(table.rows, LAMBDA r : normalize_year_value(r.Year) = Some(y)))

\* The answer to the request when the table holds the rows given only.
AnswerOver(req, table) ==
    [ values([World EXCEPT !.DATA_CACHE[<<req.dataset, req.level>>] = table],
             [req EXCEPT !.year = None]).response
        EXCEPT !.request = req ]

\* C15: a values answer from a table that has years is the answer over the
\* rows of the greatest available year when no year is asked for, and over
\* the rows of the normalized asked year when one is.
C15_YearSelection ==
    ValuesResponded =>
        LET req == response.request
            table == DATA_CACHE[<<req.dataset, req.level>>]
            years == list_years(table)
            asked == normalize_year_value(req.year)
        IN  (YEAR_COLUMN \in table.columns /\ years # <<>>) =>
                /\ req.year = None =>
                      response = AnswerOver(req, RowsOfYear(table, GreatestYear(years)))
                /\ (req.year # None /\ asked # Some("")) =>
                      response = AnswerOver(req, RowsOfYear(table, Get(asked)))


(***************************************************************************)
(* Refusals: claim C16 under SpecValues                                    *)
(***************************************************************************)
\* The variable is a column of the table or a derived variable of the
\* census dataset both of whose source columns the table has.
ColumnOrDerivable(req, table) ==
    \/ req.variable \in table.columns
    \/ /\ req.dataset = "census"
       /\ req.variable \in DOMAIN CENSUS_DERIVED_VARIABLES
       /\ CENSUS_DERIVED_VARIABLES[req.variable][1] \in table.columns
       /\ CENSUS_DERIVED_VARIABLES[req.variable][2] \in table.columns

Refused(detail) ==
    response.status = "http_error" /\ response.code = 404 /\ response.detail = detail

\* C16: a values or variables request with an unknown dataset is refused
\* as not found with "Unknown dataset", one with a known dataset and an
\* unknown level with "Unknown level", both without any load; a values
\* request for a variable that is no column and not derivable with
\* "Unknown variable"; and a request for a known dataset and level whose
\* file is absent ends in FileNotFoundError and in no not-found refusal.
C16_RefusalReasons ==
    response.handler \in {"values", "variables"} =>
        LET req == response.request
            key == <<req.dataset, req.level>>
        IN  IF req.dataset \notin DATASETS
            THEN Refused("Unknown dataset") /\ calls = <<>>
            ELSE IF req.level \notin LEVELS
            THEN Refused("Unknown level") /\ calls = <<>>
            ELSE IF dataDisk[key] = None
            THEN /\ response.status = "exception"
                 /\ response.exc = "FileNotFoundError"
            ELSE IF response.handler = "values"
                    /\ ~ColumnOrDerivable(req, Get(dataDisk[key]))
            THEN Refused("Unknown variable")
            ELSE response.status # "http_error"

\* A census file is there and loaded, and a derived variable one of whose
\* source columns the file lacks is refused as an unknown variable.
C16_Witness ==
    /\ response.handler = "values"
    /\ Refused("Unknown variable")
    /\ response.request.dataset = "census"
    /\ response.request.variable = "Income >$100K"
    /\ <<"census", response.request.level>> \in DOMAIN DATA_CACHE


(***************************************************************************)
(* The variables listed: claim C17 under SpecValues                        *)
(***************************************************************************)
\* C17: a variables answer lists no identifier column and no Year column;
\* for the census dataset it lists a derived name that is no column of the
\* table exactly when both source columns of the name are columns of the
\* table; and a values request for a listed name is not refused as an
\* unknown variable.
C17_ListedVariables ==
    (response.handler = "variables" /\ response.status = "ok") =>
        LET req == response.request
            table == DATA_CACHE[<<req.dataset, req.level>>]
        IN  /\ response.variables \cap (ID_COLUMNS[req.level] \cup {YEAR_COLUMN}) = {}
            /\ req.dataset = "census" =>
                  \A name \in DOMAIN CENSUS_DERIVED_VARIABLES \ table.columns :
                      name \in response.variables
                          <=> /\ CENSUS_DERIVED_VARIABLES[name][1] \in table.columns
                              /\ CENSUS_DERIVED_VARIABLES[name][2] \in table.columns
            /\ \A name \in response.variables :
                  LET answer == values(World,
                                       ValuesRequest(req.dataset, req.level, name, None)).response
                  IN  ~(answer.status = "http_error" /\ answer.detail = "Unknown variable")


(***************************************************************************)
(* SpecRank: values requests over census state files of about TopCount     *)
(* rows without a Year column.  Maryland and Virginia rows have the same   *)
(* Pop and different derived incomes; the Alaska row has no Pop.           *)
(***************************************************************************)
MaxRankRows == 11

RankRow(kind) ==
    CASE kind = "maryland" ->
           Row(Some("Maryland"), None, None, None, None, Cells(Num(1), Num(5), Num(2)))
      [] kind = "virginia" ->
           Row(Some("Virginia"), None, None, None, None, Cells(Num(1), Num(3), Num(2)))
      [] kind = "alaska" ->
           Row(Some("Alaska"), None, None, None, None, Cells(NaN, Num(4), Num(2)))

\* Files of MaxRankRows - 2 to MaxRankRows rows: Maryland rows, with up to
\* two Virginia rows anywhere among them and an Alaska row first or not.
RankTables ==
    { Table(ID_COLUMNS["state"] \cup {"Pop", "# of household", "Income <$50K"},
            [i \in 1..n |-> RankRow(IF i = 1 /\ first = "alaska" THEN "alaska"
                                    ELSE IF i \in others THEN "virginia"
                                    ELSE "maryland")]) :
        <<n, others, first>> \in
            { t \in ((MaxRankRows - 2)..MaxRankRows) \X (SUBSET (1..MaxRankRows))
                        \X {"alaska", "maryland"} :
                 t[2] \subseteq 1..t[1] /\ Cardinality(t[2]) <= 2 } }

InitRank ==
    /\ QIdle
    /\ GEO_CACHE_LIMIT = DefaultCacheLimit
    /\ FLOW_CACHE_LIMIT = DefaultCacheLimit
    /\ geoDisk = GeoFilesExcept({})
    /\ flowDisk = FlowFilesExcept({})
    /\ \E table \in RankTables :
          dataDisk = [key \in DATASETS \X LEVELS |->
                         IF key = <<"census", "state">> THEN Some(table) ELSE None]
    /\ ColdCaches
    /\ threads = <<>>

SpecRank == InitRank /\ [][NextValues]_vars

(***************************************************************************)
(* top and bottom: claim C18 under SpecRank                                *)
(***************************************************************************)
\* The records that have a value, in row order.
NonMissing(records) == SelectSeq(records, LAMBDA r : r.value # None)

\* Record i comes before record j from the highest value down, rows of one
\* value in row order.
BeforeDown(p, i, j) ==
    \/ Get(p[i].value) > Get(p[j].value)
    \/ Get(p[i].value) = Get(p[j].value) /\ i < j

\* Record i comes before record j from the lowest value up, rows of one
\* value in row order.
BeforeUp(p, i, j) ==
    \/ Get(p[i].value) < Get(p[j].value)
    \/ Get(p[i].value) = Get(p[j].value) /\ i < j

\* The k-th record from the highest value down, and from the lowest up.
KthDown(p, k) ==
    p[CHOOSE i \in 1..Len(p) :
          Cardinality({j \in 1..Len(p) : BeforeDown(p, j, i)}) = k - 1]

KthUp(p, k) ==
    p[CHOOSE i \in 1..Len(p) :
          Cardinality({j \in 1..Len(p) : BeforeUp(p, j, i)}) = k - 1]

LabelAndValue(r) == [label |-> r.label, value |-> r.value]

ListLength(p) == IF Len(p) < TopCount THEN Len(p) ELSE TopCount

\* C18, as the code has it: top holds the up to 10 records of the highest
\* present values from the highest down, rows of one value in row order;
\* bottom is the up to 10 last records of that same order, read backwards:
\* lowest value first, rows of one value in reverse row order.  No record
\* without a value is in either list.
C18_TopAndBottom ==
    ValuesResponded =>
        LET p == NonMissing(response.records)
            m == ListLength(p)
        IN  /\ Len(response.top) = m
            /\ Len(response.bottom) = m
            /\ \A k \in 1..m :
                  /\ response.top[k] = LabelAndValue(KthDown(p, k))
                  /\ response.bottom[k] = LabelAndValue(KthDown(p, Len(p) + 1 - k))

\* C18, as stated: bottom holds the up to 10 records of the lowest present
\* values from the lowest up, rows of one value in row order, as top does
\* from the highest down.
C18_TiesByRowOrder ==
    ValuesResponded =>
        LET p == NonMissing(response.records)
            m == ListLength(p)
        IN  /\ Len(response.top) = m
            /\ Len(response.bottom) = m
            /\ \A k \in 1..m :
                  /\ response.top[k] = LabelAndValue(KthDown(p, k))
                  /\ response.bottom[k] = LabelAndValue(KthUp(p, k))

\* Eleven records with a value, a Virginia row among Maryland rows of the
\* same Pop: the lists are cut at 10 and the Virginia row is in both.
C18_Witness ==
    /\ ValuesResponded
    /\ response.request.variable = "Pop"
    /\ Len(NonMissing(response.records)) = TopCount + 1
    /\ Len(response.top) = TopCount
    /\ \E k \in 2..(TopCount - 1) : response.top[k].label = <<"Virginia">>
    /\ \E k \in 2..(TopCount - 1) : response.bottom[k].label = <<"Virginia">>


(***************************************************************************)
(* SpecNumeric: width_from_quintile and numeric_series applied to bounded  *)
(* inputs                                                                  *)
(***************************************************************************)
MaxSeries == 6

\* The cells the columns are made of: texts of eleven digits, shorter texts
\* of digits, texts with a character that is no digit, a missing cell and
\* a number.
CellSamples ==
    << Str(<<"0", "1", "2", "3", "4", "5", "0", "0", "0", "0", "0">>),
       Str(<<"0", "0", "0", "0", "1", "2", "3", "4", "5", "6", "7">>),
       Str(<<"2", "0", "0", "0", "0", "1", "0">>),
       Str(<<"2", "0", "0", "0", "0", "0">>),
       Str(<<"1", "2", "3", "4">>),
       Str(<<"1", "2", ",", "3", "4", "5">>),
       Text,
       NaN,
       Num(3) >>

\* The columns of up to MaxSeries sample cells, each in one order.
SeriesSamples ==
    { [i \in 1..Len(ix) |-> CellSamples[ix[i]]] :
        ix \in { jx \in SeqsUpTo(1..Len(CellSamples), MaxSeries) :
                    \A i \in 1..(Len(jx) - 1) : jx[i] <= jx[i + 1] } }

\* The quintiles handed in: missing, and the integers around 1..5.
WidthInputs == {None} \cup {Some(q) : q \in -1..7}

InitNumeric ==
    /\ EngineIdle
    /\ qpc = "idle"
    /\ qvalues = <<>>
    /\ qthresholds = <<>>
    /\ qval = None
    /\ qquintile = <<>>
    /\ wquintile = None
    /\ wwidth = None
    /\ nseries \in SeriesSamples
    /\ nnumeric = None

\* width = width_from_quintile(quintile)
WidthFromQuintile ==
    /\ \E q \in WidthInputs :
          /\ wquintile' = q
          /\ wwidth' = Some(width_from_quintile(q))
    /\ UNCHANGED <<qpc, qvalues, qthresholds, qval, qquintile, nseries, nnumeric, enginevars>>

\* numeric = numeric_series(series)
NumericSeries ==
    /\ nnumeric = None
    /\ nnumeric' = Some(numeric_series(nseries))
    /\ UNCHANGED <<qpc, qvalues, qthresholds, qval, qquintile, wquintile, wwidth, nseries,
                   enginevars>>

NextNumeric == WidthFromQuintile \/ NumericSeries

SpecNumeric == InitNumeric /\ [][NextNumeric]_vars

(***************************************************************************)
(* width_from_quintile: claim C19 under SpecNumeric                        *)
(***************************************************************************)
\* C19: the width of the quintiles 1 to 5 is 0.5, 0.8, 1.2, 1.8 and 2.5, and
\* the width of every other quintile (None, 0, a negative one, one above 5)
\* is that of quintile 1, 0.5.  Widths are in tenths.
C19_WidthClampsToOne ==
    wwidth # None =>
        IF wquintile # None /\ Get(wquintile) \in 1..5
        THEN Get(wwidth) = <<5, 8, 12, 18, 25>>[Get(wquintile)]
        ELSE Get(wwidth) = 5


(***************************************************************************)
(* numeric_series: claim C20 under SpecNumeric                             *)
(***************************************************************************)
\* The text a cell is read as.
Printed(cell) == astype_str(cell)

InRange(n) == 10000 <= n /\ n <= 200000

\* The value of a text on the long-number path.
Mangled(text) ==
    LET digits == SelectSeq(text, isdigit)
    IN  IF Len(digits) < 5 THEN None
        ELSE IF Len(digits) >= 6 /\ InRange(int(SubSeq(digits, 1, 6)))
        THEN Some(int(SubSeq(digits, 1, 6)))
        ELSE IF InRange(int(SubSeq(digits, 1, 5)))
        THEN Some(int(SubSeq(digits, 1, 5)))
        ELSE None

\* The plain parse of a cell: its number, the number a text of digits
\* writes, and missing otherwise.
PlainParse(cell) ==
    IF cell.kind = "num" THEN Some(cell.num)
    ELSE IF cell.kind = "text" /\ cell.chars # <<>>
            /\ \A i \in 1..Len(cell.chars) : isdigit(cell.chars[i])
    THEN Some(int(cell.chars))
    ELSE None

\* The column is textual, more than 80% of its entries are texts of digits
\* and more than 20% are longer than 10 characters.
LongNumberColumn(series) ==
    LET n == Len(series)
        pure == {i \in 1..n : Printed(series[i]) # <<>>
                                /\ \A k \in 1..Len(Printed(series[i])) :
                                       isdigit(Printed(series[i])[k])}
        long == {i \in 1..n : Len(Printed(series[i])) > 10}
    IN  /\ \E i \in 1..n : series[i].kind = "text"
        /\ 10 * Cardinality(pure) > 8 * n
        /\ 10 * Cardinality(long) > 2 * n

\* C20: numeric_series returns, for a long-number column, the mangled value
\* of each entry (missing under 5 digits, else the first 6 digits if in
\* [10000, 200000], else the first 5 digits if in it, else missing), and
\* for every other column the plain parse of each entry.
C20_LongNumberPath ==
    nnumeric # None =>
        LET numeric == Get(nnumeric)
        IN  /\ Len(numeric) = Len(nseries)
            /\ \A i \in 1..Len(nseries) :
                  numeric[i] = IF LongNumberColumn(nseries)
                               THEN Mangled(Printed(nseries[i]))
                               ELSE PlainParse(nseries[i])

\* A column of six entries on the long-number path: two of eleven digits,
\* one whose first six digits are above the range and whose first five are
\* in it, one of six digits in the range, one too short, and one with a
\* comma, which has a value on this path only.
C20_Witness ==
    /\ nnumeric # None
    /\ Len(nseries) = 6
    /\ LongNumberColumn(nseries)
    /\ Get(nnumeric) = <<Some(12345), Some(12345), Some(20000), Some(200000), None,
                         Some(12345)>>
    /\ PlainParse(nseries[6]) = None


(***************************************************************************)
(* C21: a load_geo or load_flow call that fails because its source file is *)
(* missing leaves its cache domain exactly as it was before the call: the  *)
(* cache and the recency list are unchanged, also at capacity.             *)
(***************************************************************************)
\* The call is the one loader call of the step, and it has failed on its own
\* file being absent.
FailedOnMissingFile(c) ==
    /\ c.outcome = "fail"
    /\ \/ c.fn = "load_geo" /\ geoDisk[c.key] = None
       \/ c.fn = "load_flow" /\ flowDisk[c.key] = None

C21_FailedLoadLeavesCache ==
    [][ (Len(calls') = 1 /\ FailedOnMissingFile(calls'[1])) =>
           IF calls'[1].fn = "load_geo"
           THEN GEO_CACHE' = GEO_CACHE /\ GEO_CACHE_ORDER' = GEO_CACHE_ORDER
           ELSE FLOW_CACHE' = FLOW_CACHE /\ FLOW_CACHE_ORDER' = FLOW_CACHE_ORDER ]_vars

=============================================================================
